---- MODULE Spec2Model ----
(***************************************************************************)
(* Model of the TTree / RNTuple consistency checker: the Checker queries   *)
(* (Checker.cxx) and the CheckerCLI::Compare pipeline with its printing    *)
(* sections (CheckerCLI.cxx).                                              *)
(*                                                                         *)
(* Strings that the code inspects character by character (type spellings,  *)
(* field names) are sequences of one-character strings, so that find(),    *)
(* substr() and regex_match() are computed as the code computes them.      *)
(***************************************************************************)
EXTENDS Integers, Sequences, FiniteSets, TLC

\* ---------------------------------------------------------------- bounds
MaxFields == 2
MaxRows == 2
MaxVal == 1

\* ------------------------------------------------------- field names
N_value == <<"v", "a", "l", "u", "e">>
N_energy == <<"e", "n", "e", "r", "g", "y">>
N_weight == <<"w", "e", "i", "g", "h", "t">>
N_isNew == <<"i", "s", "N", "e", "w">>
N_charge == <<"c", "h", "a", "r", "g", "e">>
N_mass == <<"m", "a", "s", "s">>
N_height == <<"h", "e", "i", "g", "h", "t">>
N_isOld == <<"i", "s", "O", "l", "d">>
\* reserved name of the element subfield of a columnar vector field
N_0 == <<"_", "0">>
N_pt_0 == <<"p", "t", "_", "0">>
NoMatch == <<"N", "o", " ", "m", "a", "t", "c", "h">>
Missing == <<"M", "i", "s", "s", "i", "n", "g">>
Empty == <<>>

\* ------------------------------------------------------- type spellings
T_Int_t == <<"I", "n", "t", "_", "t">>
T_Float_t == <<"F", "l", "o", "a", "t", "_", "t">>
T_Double_t == <<"D", "o", "u", "b", "l", "e", "_", "t">>
T_Bool_t == <<"B", "o", "o", "l", "_", "t">>
T_UInt_t == <<"U", "I", "n", "t", "_", "t">>
T_vector_int == <<"v", "e", "c", "t", "o", "r", "<", "i", "n", "t", ">">>
T_vector_float == <<"v", "e", "c", "t", "o", "r", "<", "f", "l", "o", "a", "t", ">">>
T_vector_double == <<"v", "e", "c", "t", "o", "r", "<", "d", "o", "u", "b", "l", "e", ">">>
T_vector_bool == <<"v", "e", "c", "t", "o", "r", "<", "b", "o", "o", "l", ">">>
T_vector_unsigned_int == <<"v", "e", "c", "t", "o", "r", "<", "u", "n", "s", "i", "g", "n", "e", "d", " ", "i", "n", "t", ">">>
T_vector_string == <<"v", "e", "c", "t", "o", "r", "<", "s", "t", "r", "i", "n", "g", ">">>
T_int == <<"i", "n", "t">>
T_float == <<"f", "l", "o", "a", "t">>
T_double == <<"d", "o", "u", "b", "l", "e">>
T_bool == <<"b", "o", "o", "l">>
T_std_int32_t == <<"s", "t", "d", ":", ":", "i", "n", "t", "3", "2", "_", "t">>
T_std_uint32_t == <<"s", "t", "d", ":", ":", "u", "i", "n", "t", "3", "2", "_", "t">>
T_std_vector_int32_t == <<"s", "t", "d", ":", ":", "v", "e", "c", "t", "o", "r", "<", "s", "t", "d", ":", ":", "i", "n", "t", "3", "2", "_", "t", ">">>
T_std_vector_int == <<"s", "t", "d", ":", ":", "v", "e", "c", "t", "o", "r", "<", "i", "n", "t", ">">>
T_std_vector_float == <<"s", "t", "d", ":", ":", "v", "e", "c", "t", "o", "r", "<", "f", "l", "o", "a", "t", ">">>
T_std_vector_double == <<"s", "t", "d", ":", ":", "v", "e", "c", "t", "o", "r", "<", "d", "o", "u", "b", "l", "e", ">">>
T_std_vector_bool == <<"s", "t", "d", ":", ":", "v", "e", "c", "t", "o", "r", "<", "b", "o", "o", "l", ">">>
T_std_vector_uint32_t == <<"s", "t", "d", ":", ":", "v", "e", "c", "t", "o", "r", "<", "s", "t", "d", ":", ":", "u", "i", "n", "t", "3", "2", "_", "t", ">">>
T_std_vector_string == <<"s", "t", "d", ":", ":", "v", "e", "c", "t", "o", "r", "<", "s", "t", "d", ":", ":", "s", "t", "r", "i", "n", "g", ">">>
S_vector == <<"v", "e", "c", "t", "o", "r">>
S_std_vector_lt == <<"s", "t", "d", ":", ":", "v", "e", "c", "t", "o", "r", "<">>

\* ------------------------------------------------- std::string operations
\* std::string::npos
npos == -1

\* s.substr(pos, n), pos 0-based
SubStr(s, pos, n) == SubSeq(s, pos + 1, pos + n)

\* p occurs in s at 0-based offset i
OccursAt(s, p, i) ==
    /\ i >= 0
    /\ i + Len(p) <= Len(s)
    /\ \A k \in 1..Len(p) : s[i + k] = p[k]

\* s.find(p): the smallest offset of an occurrence, or npos
Find(s, p) ==
    LET hits == {i \in 0..Len(s) : OccursAt(s, p, i)}
    IN  IF hits = {} THEN npos ELSE CHOOSE i \in hits : \A j \in hits : i <= j

\* s.find(p) != std::string::npos
Contains(s, p) == Find(s, p) # npos

\* std::regex_match(s, std::regex(pre + ".*" + mid + ".*" + post)) for
\* literals pre, mid, post without regex metacharacters
RegexMatchAround(s, pre, mid, post) ==
    /\ OccursAt(s, pre, 0)
    /\ OccursAt(s, post, Len(s) - Len(post))
    /\ \E k \in Len(pre)..(Len(s) - Len(post) - Len(mid)) : OccursAt(s, mid, k)

\* --------------------------------------------------------- the datasets
\* Logical kinds of the fields written into the two files.
ScalarKinds == {"int", "float", "double", "bool", "uint"}
VectorKinds == {"vint", "vfloat", "vdouble", "vbool", "vuint", "vstring"}

\* TLeaf::GetTypeName() of a branch holding a value of the kind
TreeTypeName(kind) ==
    CASE kind = "int" -> T_Int_t
      [] kind = "float" -> T_Float_t
      [] kind = "double" -> T_Double_t
      [] kind = "bool" -> T_Bool_t
      [] kind = "uint" -> T_UInt_t
      [] kind = "vint" -> T_vector_int
      [] kind = "vfloat" -> T_vector_float
      [] kind = "vdouble" -> T_vector_double
      [] kind = "vbool" -> T_vector_bool
      [] kind = "vuint" -> T_vector_unsigned_int
      [] kind = "vstring" -> T_vector_string

\* RFieldDescriptor::GetTypeName() of a field holding a value of the kind
NTupleTypeName(kind) ==
    CASE kind = "int" -> T_std_int32_t
      [] kind = "float" -> T_float
      [] kind = "double" -> T_double
      [] kind = "bool" -> T_bool
      [] kind = "uint" -> T_std_uint32_t
      [] kind = "vint" -> T_std_vector_int32_t
      [] kind = "vfloat" -> T_std_vector_float
      [] kind = "vdouble" -> T_std_vector_double
      [] kind = "vbool" -> T_std_vector_bool
      [] kind = "vuint" -> T_std_vector_uint32_t
      [] kind = "vstring" -> T_std_vector_string
      [] kind = "string" -> <<"s", "t", "d", ":", ":", "s", "t", "r", "i", "n", "g">>

\* element kind of a vector kind
ElemKind(kind) ==
    CASE kind = "vint" -> "int"
      [] kind = "vfloat" -> "float"
      [] kind = "vdouble" -> "double"
      [] kind = "vbool" -> "bool"
      [] kind = "vuint" -> "uint"
      [] kind = "vstring" -> "string"

\* Names of the fields in declaration order, and the name a field carries
\* in the other file when it was renamed there.
BaseNames == <<N_value, N_energy, N_weight, N_isNew>>
AltNames == <<N_charge, N_mass, N_height, N_isOld>>

\* The kinds the datasets are drawn from, and the kind a field has in the
\* RNTuple when it was written there with another type.
DataKinds == {"int", "double", "vint", "uint"}
Retyped(kind) ==
    CASE kind = "int" -> "double"
      [] kind = "double" -> "float"
      [] kind = "vint" -> "vfloat"
      [] kind = "uint" -> "int"
      [] kind = "vuint" -> "vint"
      [] kind = "vstring" -> "vint"
Edits == {"same", "rename", "retype", "drop"}

\* Row i of field j: the value of a scalar, the length of a vector.
Datum(j, i, shift) == (i + j + shift) % (MaxVal + 1)

\* The TTree with n entries and one branch per kind.
MakeTree(kinds, n) ==
    [rows |-> n,
     branches |-> [j \in 1..Len(kinds) |->
        [name |-> BaseNames[j], type |-> TreeTypeName(kinds[j]),
         data |-> [i \in 1..n |-> Datum(j, i, 0)]]]]

\* The field descriptors of one top-level field, depth first: the field,
\* then for a vector its element subfield "_0".
FieldDescriptors(name, kind, data) ==
    IF kind \in VectorKinds
    THEN << [name |-> name, type |-> NTupleTypeName(kind), top |-> TRUE, data |-> data],
            [name |-> N_0, type |-> NTupleTypeName(ElemKind(kind)), top |-> FALSE, data |-> <<>>] >>
    ELSE << [name |-> name, type |-> NTupleTypeName(kind), top |-> TRUE, data |-> data] >>

\* The zero (root) field: it is counted by GetNFields() and is not among
\* the descriptors 0 .. GetNFields() - 2
FieldZero == [name |-> Empty, type |-> Empty, top |-> FALSE, data |-> <<>>]

\* The descriptors of the fields j .. last carrying the given names, each
\* field kept, renamed, retyped or dropped, and the zero field after them.
RECURSIVE NamedDescriptorsFrom(_, _, _, _, _, _)
NamedDescriptorsFrom(names, kinds, edits, n, shift, j) ==
    IF j > Len(kinds) THEN << FieldZero >>
    ELSE IF edits[j] = "drop" THEN NamedDescriptorsFrom(names, kinds, edits, n, shift, j + 1)
    ELSE FieldDescriptors(IF edits[j] = "rename" THEN AltNames[j] ELSE names[j],
                          IF edits[j] = "retype" THEN Retyped(kinds[j]) ELSE kinds[j],
                          [i \in 1..n |-> Datum(j, i, shift)])
         \o NamedDescriptorsFrom(names, kinds, edits, n, shift, j + 1)

\* The RNTuple with n entries written from the same kinds, each field kept,
\* renamed, retyped or dropped.
MakeNTuple(kinds, edits, n, shift) ==
    [rows |-> n, desc |-> NamedDescriptorsFrom(BaseNames, kinds, edits, n, shift, 1)]

\* The same two files with the fields carrying the given names.
NamedTree(names, kinds, n) ==
    [rows |-> n,
     branches |-> [j \in 1..Len(kinds) |->
        [name |-> names[j], type |-> TreeTypeName(kinds[j]),
         data |-> [i \in 1..n |-> Datum(j, i, 0)]]]]

NamedNTuple(names, kinds, edits, n, shift) ==
    [rows |-> n, desc |-> NamedDescriptorsFrom(names, kinds, edits, n, shift, 1)]

\* sequences of length 1 .. MaxFields over S
SeqsUpTo(S) == UNION {[1..m -> S] : m \in 1..MaxFields}

\* ------------------------------------------------------ Checker queries
\* A 64-bit count is held in limbs: hi * 2^32 + mid * 2^16 + lo.
Count64(n) == [hi |-> 0, mid |-> (n \div 65536) % 65536, lo |-> n % 65536]

\* ttree->GetEntries() and rntupleReader->GetNEntries(). A file with more
\* entries than the model can hold as rows carries its 64-bit entry count
\* in the field 'count'.
GetEntries(t) == IF "count" \in DOMAIN t THEN t.count ELSE Count64(t.rows)
GetNEntries(r) == IF "count" \in DOMAIN r THEN r.count ELSE Count64(r.rows)

\* static_cast<int> of a 64-bit count: the low 32 bits, read as signed
ToInt(c) == (IF c.mid >= 32768 THEN c.mid - 65536 ELSE c.mid) * 65536 + c.lo

\* rntupleReader->GetDescriptor().GetNFields(): every descriptor, the zero
\* field included
GetNFields(r) == Len(r.desc)

\* descriptor.GetFieldDescriptor(i), i 0-based
GetFieldDescriptor(r, i) == r.desc[i + 1]

\* descriptor.FindFieldId(name): the 0-based id of the top-level field of
\* that name, or npos for kInvalid
FindFieldId(r, name) ==
    LET ids == {i \in 0..(GetNFields(r) - 2) :
                   GetFieldDescriptor(r, i).top /\ GetFieldDescriptor(r, i).name = name}
    IN  IF ids = {} THEN npos ELSE CHOOSE i \in ids : TRUE

\* variant: both counts taken from the TTree
CountEntries_TreeTwice(t, r) == << ToInt(GetEntries(t)), ToInt(GetEntries(t)) >>
CountEntries(t, r) == << ToInt(GetEntries(t)), ToInt(GetNEntries(r)) >>

\* variant: the "_0" subfields are not taken off the RNTuple count
CountFields_KeepSubFields(t, r) == << Len(t.branches), GetNFields(r) - 1 >>
\* variant: the zero field is not taken off the RNTuple count
CountFields_KeepZeroField(t, r) ==
    LET rntupleFieldCount == GetNFields(r)
        extraFieldCount == Cardinality({i \in 0..(rntupleFieldCount - 2) :
                                           GetFieldDescriptor(r, i).name = N_0})
    IN  << Len(t.branches), rntupleFieldCount - extraFieldCount >>
CountFields(t, r) ==
    LET ttreeFieldCount == Len(t.branches)
        \* inspector->GetFieldCountByType(".*", true)
        rntupleFieldCount == GetNFields(r)
        extraFieldCount == Cardinality({i \in 0..(rntupleFieldCount - 2) :
                                           GetFieldDescriptor(r, i).name = N_0})
    IN  << ttreeFieldCount, rntupleFieldCount - extraFieldCount - 1 >>

\* The keys of the map rntupleFields / rntupleFieldTypes: the names of the
\* descriptors before the last one that are not named "_0".
CollectedNames(r) ==
    {GetFieldDescriptor(r, i).name : i \in {k \in 0..(GetNFields(r) - 2) :
                                              GetFieldDescriptor(r, k).name # N_0}}

\* rntupleFieldTypes[name]: the type of the last collected descriptor of
\* that name
CollectedType(r, name) ==
    LET ids == {i \in 0..(GetNFields(r) - 2) : GetFieldDescriptor(r, i).name = name}
        last == CHOOSE i \in ids : \A k \in ids : k <= i
    IN  GetFieldDescriptor(r, last).type

\* variant: a matched name is not erased from the map
RECURSIVE MatchBranches_NoErase(_, _, _, _)
MatchBranches_NoErase(t, i, map, acc) ==
    IF i > Len(t.branches) THEN [rows |-> acc, left |-> map]
    ELSE MatchBranches_NoErase(t, i + 1, map,
             Append(acc, [name |-> t.branches[i].name, matched |-> t.branches[i].name \in map]))
\* The loop over the branches: a branch takes the map entry of its name and
\* erases it. Yields the emitted rows and the names left in the map.
RECURSIVE MatchBranches(_, _, _, _)
MatchBranches(t, i, map, acc) ==
    IF i > Len(t.branches) THEN [rows |-> acc, left |-> map]
    ELSE LET branchName == t.branches[i].name
         IN  IF branchName \in map
             THEN MatchBranches(t, i + 1, map \ {branchName},
                                Append(acc, [name |-> branchName, matched |-> TRUE]))
             ELSE MatchBranches(t, i + 1, map,
                                Append(acc, [name |-> branchName, matched |-> FALSE]))

\* The orders in which iterating an std::unordered_map can yield its keys.
IterationOrders(S) ==
    {p \in [1..Cardinality(S) -> S] : \A a, b \in 1..Cardinality(S) : p[a] = p[b] => a = b}

\* CompareFieldNames, the remaining map entries being iterated in 'order'
CompareFieldNames(t, r, order) ==
    LET m == MatchBranches(t, 1, CollectedNames(r), <<>>)
    IN  [i \in 1..Len(m.rows) |->
            << m.rows[i].name, IF m.rows[i].matched THEN m.rows[i].name ELSE NoMatch >>]
        \o [i \in 1..Len(order) |-> << NoMatch, order[i] >>]

\* CompareFieldTypes, the remaining map entries being iterated in 'order'
CompareFieldTypes(t, r, order) ==
    LET m == MatchBranches(t, 1, CollectedNames(r), <<>>)
    IN  [i \in 1..Len(m.rows) |->
            << m.rows[i].name, t.branches[i].type,
               IF m.rows[i].matched THEN CollectedType(r, m.rows[i].name) ELSE NoMatch >>]
        \o [i \in 1..Len(order) |-> << order[i], NoMatch, CollectedType(r, order[i]) >>]

\* the names left in the map after the branch loop
Leftovers(t, r) == MatchBranches(t, 1, CollectedNames(r), <<>>).left

\* ------------------------------------------------ subfield reconciliation
ExtractSubFieldType(vectorType) ==
    LET start == Find(vectorType, <<"<">>)
        end == Find(vectorType, <<">">>)
    IN  IF start # npos /\ end # npos /\ start < end
        THEN SubStr(vectorType, start + 1, end - start - 1)
        ELSE Empty

RECURSIVE SumSeq(_)
SumSeq(q) == IF q = <<>> THEN 0 ELSE Head(q) + SumSeq(Tail(q))

\* the branch's per-row vector sizes summed, for the four supported types
CountSubFieldsInBranch(branch, branchTypeName) ==
    IF branchTypeName \in {T_vector_int, T_vector_float, T_vector_double, T_vector_bool}
    THEN SumSeq(branch.data)
    ELSE 0

\* The element type of the view CountSubFieldsInRNTuple opens for a subfield
\* type spelling, or Empty when it opens none.
ViewElementType(rntupleSubFieldType) ==
    IF Contains(rntupleSubFieldType, T_int) THEN T_int
    ELSE IF Contains(rntupleSubFieldType, T_float) THEN T_float
    ELSE IF Contains(rntupleSubFieldType, T_double) THEN T_double
    ELSE IF Contains(rntupleSubFieldType, T_bool) THEN T_bool
    ELSE Empty

\* rntupleReader->GetView<std::vector<E>>(name) can be read when the field
\* on disk is a vector of E; otherwise the reader throws. Whether a vector
\* of std::uint32_t can be read through a view of std::vector<int> depends
\* on the reader ('coerce').
VectorViewReadable(r, name, elem, coerce) ==
    LET id == FindFieldId(r, name)
    IN  /\ id # npos
        /\ \/ GetFieldDescriptor(r, id).type =
                (CASE elem = T_int -> T_std_vector_int32_t
                   [] elem = T_float -> T_std_vector_float
                   [] elem = T_double -> T_std_vector_double
                   [] elem = T_bool -> T_std_vector_bool
                   [] OTHER -> Empty)
           \/ /\ coerce
              /\ elem = T_int
              /\ GetFieldDescriptor(r, id).type = T_std_vector_uint32_t

\* The loop of CountSubFieldsInRNTuple over the descriptors i .. last - 1.
RECURSIVE CountSubFieldsLoop(_, _, _, _, _, _)
CountSubFieldsLoop(r, branchName, rntupleSubFieldType, coerce, i, numSubfields) ==
    IF i >= GetNFields(r) - 1 THEN [thrown |-> FALSE, count |-> numSubfields]
    ELSE IF Contains(branchName, N_0) THEN [thrown |-> FALSE, count |-> numSubfields]
    ELSE IF /\ RegexMatchAround(GetFieldDescriptor(r, i).type, S_std_vector_lt,
                                rntupleSubFieldType, <<">">>)
            /\ ViewElementType(rntupleSubFieldType) # Empty
         THEN IF VectorViewReadable(r, branchName, ViewElementType(rntupleSubFieldType), coerce)
              THEN CountSubFieldsLoop(r, branchName, rntupleSubFieldType, coerce, i + 1,
                       numSubfields
                       + SumSeq(GetFieldDescriptor(r, FindFieldId(r, branchName)).data))
              ELSE [thrown |-> TRUE, count |-> 0]
         ELSE CountSubFieldsLoop(r, branchName, rntupleSubFieldType, coerce, i + 1, numSubfields)

CountSubFieldsInRNTuple(r, branchName, rntupleSubFieldType, coerce) ==
    CountSubFieldsLoop(r, branchName, rntupleSubFieldType, coerce, 0, 0)

\* variant: the columnar field is counted by the element type extracted
\* from the branch's type string
RECURSIVE CompareSubFieldsLoop_RowSideType(_, _, _, _, _)
CompareSubFieldsLoop_RowSideType(t, r, coerce, i, acc) ==
    IF i > Len(t.branches) THEN [thrown |-> FALSE, rows |-> acc]
    ELSE LET branch == t.branches[i]
             fieldId == FindFieldId(r, branch.name)
         IN  IF ~Contains(branch.type, S_vector) \/ fieldId = npos
             THEN CompareSubFieldsLoop_RowSideType(t, r, coerce, i + 1, acc)
             ELSE LET res == CountSubFieldsInRNTuple(r, branch.name,
                                 ExtractSubFieldType(branch.type), coerce)
                  IN  IF res.thrown THEN [thrown |-> TRUE, rows |-> <<>>]
                      ELSE CompareSubFieldsLoop_RowSideType(t, r, coerce, i + 1,
                               Append(acc, [name |-> branch.name,
                                            ttreeSub |-> ExtractSubFieldType(branch.type),
                                            rntupleSub |-> ExtractSubFieldType(
                                                GetFieldDescriptor(r, fieldId).type),
                                            ttreeCount |-> CountSubFieldsInBranch(branch, branch.type),
                                            rntupleCount |-> res.count]))
\* The loop of CompareSubFields over the branches i .. last.
RECURSIVE CompareSubFieldsLoop(_, _, _, _, _)
CompareSubFieldsLoop(t, r, coerce, i, acc) ==
    IF i > Len(t.branches) THEN [thrown |-> FALSE, rows |-> acc]
    ELSE LET branch == t.branches[i]
             fieldId == FindFieldId(r, branch.name)
         IN  IF ~Contains(branch.type, S_vector) \/ fieldId = npos
             THEN CompareSubFieldsLoop(t, r, coerce, i + 1, acc)
             ELSE LET rntupType == GetFieldDescriptor(r, fieldId).type
                      ttreeSubFieldType == ExtractSubFieldType(branch.type)
                      rntupleSubFieldType == ExtractSubFieldType(rntupType)
                      ttreeCount == CountSubFieldsInBranch(branch, branch.type)
                      res == CountSubFieldsInRNTuple(r, branch.name, rntupleSubFieldType, coerce)
                  IN  IF res.thrown THEN [thrown |-> TRUE, rows |-> <<>>]
                      ELSE CompareSubFieldsLoop(t, r, coerce, i + 1,
                               Append(acc, [name |-> branch.name,
                                            ttreeSub |-> ttreeSubFieldType,
                                            rntupleSub |-> rntupleSubFieldType,
                                            ttreeCount |-> ttreeCount,
                                            rntupleCount |-> res.count]))

CompareSubFields(t, r, coerce) == CompareSubFieldsLoop(t, r, coerce, 1, <<>>)

\* ------------------------------------------------------ reading the values
RECURSIVE ConcatData(_, _, _)
\* the rows of the selected items of q, in order
ConcatData(q, leafType, i) ==
    IF i > Len(q) THEN <<>>
    ELSE (IF q[i].type = leafType THEN q[i].data ELSE <<>>) \o ConcatData(q, leafType, i + 1)

\* variant: only the first branch is read
ReadFromTTree_FirstBranch(t, leafType) == ConcatData(SubSeq(t.branches, 1, 1), leafType, 1)
\* ReadIntFromTTree, ReadFloatFromTTree, ReadDoubleFromTTree,
\* ReadBoolFromTTree: the rows of every branch of exactly that leaf type
ReadFromTTree(t, leafType) == ConcatData(t.branches, leafType, 1)

ReadIntFromTTree(t) == ReadFromTTree(t, T_Int_t)
ReadFloatFromTTree(t) == ReadFromTTree(t, T_Float_t)
ReadDoubleFromTTree(t) == ReadFromTTree(t, T_Double_t)
ReadBoolFromTTree(t) == ReadFromTTree(t, T_Bool_t)

\* rntupleReader->GetView<T>(fieldName) for a scalar T spelled viewType:
\* the view resolves the name among the top-level fields and throws when
\* there is none or when the field on disk has another type. Whether a
\* std::uint32_t column can be read through a view of int depends on the
\* reader ('coerce').
ScalarViewReadable(r, fieldName, viewType, coerce) ==
    LET id == FindFieldId(r, fieldName)
    IN  /\ id # npos
        /\ \/ GetFieldDescriptor(r, id).type = viewType
           \/ /\ coerce
              /\ viewType = T_std_int32_t
              /\ GetFieldDescriptor(r, id).type = T_std_uint32_t

\* variant: a field whose view cannot be obtained is passed over
RECURSIVE ReadLoop_Swallow(_, _, _, _, _, _, _)
ReadLoop_Swallow(r, pattern, bySubstring, viewType, coerce, i, acc) ==
    IF i >= GetNFields(r) - 1 THEN [thrown |-> FALSE, values |-> acc]
    ELSE LET fd == GetFieldDescriptor(r, i)
         IN  IF /\ (IF bySubstring THEN Contains(fd.type, pattern) ELSE fd.type = pattern)
                /\ ScalarViewReadable(r, fd.name, viewType, coerce)
             THEN ReadLoop_Swallow(r, pattern, bySubstring, viewType, coerce, i + 1,
                                   acc \o GetFieldDescriptor(r, FindFieldId(r, fd.name)).data)
             ELSE ReadLoop_Swallow(r, pattern, bySubstring, viewType, coerce, i + 1, acc)
\* The loop of a Read<T>FromRNTuple over the descriptors i .. last - 1.
RECURSIVE ReadLoop(_, _, _, _, _, _, _)
ReadLoop(r, pattern, bySubstring, viewType, coerce, i, acc) ==
    IF i >= GetNFields(r) - 1 THEN [thrown |-> FALSE, values |-> acc]
    ELSE LET fd == GetFieldDescriptor(r, i)
         IN  IF (IF bySubstring THEN Contains(fd.type, pattern) ELSE fd.type = pattern)
             THEN IF ScalarViewReadable(r, fd.name, viewType, coerce)
                  THEN ReadLoop(r, pattern, bySubstring, viewType, coerce, i + 1,
                                acc \o GetFieldDescriptor(r, FindFieldId(r, fd.name)).data)
                  ELSE [thrown |-> TRUE, values |-> <<>>]
             ELSE ReadLoop(r, pattern, bySubstring, viewType, coerce, i + 1, acc)

ReadIntFromRNTuple(r, coerce) ==
    ReadLoop(r, T_int, TRUE, T_std_int32_t, coerce, 0, <<>>)

ReadFloatFromRNTuple(r) ==
    ReadLoop(r, T_float, FALSE, T_float, FALSE, 0, <<>>)

ReadDoubleFromRNTuple(r) ==
    ReadLoop(r, T_double, FALSE, T_double, FALSE, 0, <<>>)

ReadBoolFromRNTuple(r) ==
    ReadLoop(r, T_bool, FALSE, T_bool, FALSE, 0, <<>>)

\* ------------------------------------------------------------ histograms
MinOf(q) == CHOOSE x \in {q[i] : i \in 1..Len(q)} : \A k \in 1..Len(q) : x <= q[k]
MaxOf(q) == CHOOSE x \in {q[i] : i \in 1..Len(q)} : \A k \in 1..Len(q) : q[k] <= x

\* the sum of x^power over the values x of q, from the i-th on, that lie in
\* the axis range [lo, hi) (all of them when lo >= hi)
RECURSIVE SumOver(_, _, _, _, _)
SumOver(q, lo, hi, power, i) ==
    IF i > Len(q) THEN 0
    ELSE (IF lo >= hi \/ (lo <= q[i] /\ q[i] < hi)
          THEN (CASE power = 0 -> 1 [] power = 1 -> q[i] [] OTHER -> q[i] * q[i])
          ELSE 0) + SumOver(q, lo, hi, power, i + 1)

\* The statistics of a one-dimensional histogram on [lo, hi) filled with
\* the values: every Fill counts as an entry; the sums behind GetMean and
\* GetStdDev take the values inside the axis range only. With lo >= hi the
\* histogram buffers the values and chooses a range that holds them all.
\* The sums stand for the mean swx / sw and the variance
\* swx2 / sw - (swx / sw)^2.
FillStatistics(values, lo, hi) ==
    [count |-> Len(values),
     sw |-> SumOver(values, lo, hi, 0, 1),
     swx |-> SumOver(values, lo, hi, 1, 1),
     swx2 |-> SumOver(values, lo, hi, 2, 1)]

\* { 0, 0.0, 0.0 }
NoStatistics == [count |-> 0, sw |-> 0, swx |-> 0, swx2 |-> 0]

\* the axis of one numeric pad of HistTTree / HistRNTuple: 100 bins from
\* the smallest to the largest value of the pad's own data
NumericAxis(data) == [bins |-> 100, lo |-> MinOf(data), hi |-> MaxOf(data)]

\* one numeric pad of HistTTree / HistRNTuple
NumericHist(data) ==
    IF data # <<>>
    THEN FillStatistics(data, NumericAxis(data).lo, NumericAxis(data).hi)
    ELSE NoStatistics

\* the bool pad: 2 bins on [0, 2)
BoolHist(data) ==
    IF data # <<>> THEN FillStatistics(data, 0, 2) ELSE NoStatistics

HistTTree(intData, floatData, doubleData, boolData) ==
    << NumericHist(intData), NumericHist(floatData), NumericHist(doubleData), BoolHist(boolData) >>

HistRNTuple(intData, floatData, doubleData, boolData) ==
    << NumericHist(intData), NumericHist(floatData), NumericHist(doubleData), BoolHist(boolData) >>

\* hist->GetMean() of the two summaries differs (0 when nothing is in range)
MeanMismatch(a, b) ==
    LET an == IF a.sw = 0 THEN 0 ELSE a.swx
        ad == IF a.sw = 0 THEN 1 ELSE a.sw
        bn == IF b.sw = 0 THEN 0 ELSE b.swx
        bd == IF b.sw = 0 THEN 1 ELSE b.sw
    IN  an * bd # bn * ad

\* hist->GetStdDev() of the two summaries differs
StdDevMismatch(a, b) ==
    LET an == IF a.sw = 0 THEN 0 ELSE a.swx2 * a.sw - a.swx * a.swx
        ad == IF a.sw = 0 THEN 1 ELSE a.sw * a.sw
        bn == IF b.sw = 0 THEN 0 ELSE b.swx2 * b.sw - b.swx * b.swx
        bd == IF b.sw = 0 THEN 1 ELSE b.sw * b.sw
    IN  an * bd # bn * ad

CountMismatch(a, b) == a.count # b.count

\* ------------------------------------------------------ printed sections
\* A printed line: its text and, where the line shows one, the number.
Line(txt) == [txt |-> txt, num |-> -1]
LineNum(txt, n) == [txt |-> txt, num |-> n]

SuccessLine == Line("Check ran through successfully! No inconsistency found.")

PrintEntryComparison(e, verbose) ==
    IF ~verbose /\ e[1] = e[2] THEN [ret |-> FALSE, lines |-> <<>>]
    ELSE [ret |-> TRUE,
          lines |-> << Line("*** Entry Count ***") >>
             \o (IF e[1] = e[2]
                 THEN << LineNum("Number of entries: ", e[1]) >>
                 ELSE << LineNum("Number of entries in TTree: ", e[1]),
                         LineNum("Number of entries in RNTuple: ", e[2]) >>)
             \o (IF e[1] = e[2]
                 THEN << Line("TTree and RNTuple have the same entry count: TRUE") >>
                 ELSE << Line("TTree and RNTuple have the same entry count: FALSE") >>)]

PrintFieldComparison(f, verbose) ==
    IF ~verbose /\ f[1] = f[2] THEN [ret |-> FALSE, lines |-> <<>>]
    ELSE [ret |-> TRUE,
          lines |-> << Line("*** Field Count ***") >>
             \o (IF f[1] = f[2]
                 THEN << LineNum("Number of fields:  ", f[1]) >>
                 ELSE << LineNum("Number of fields in TTree: ", f[1]),
                         LineNum("Number of fields in RNTuple: ", f[2]) >>)
             \o (IF f[1] = f[2]
                 THEN << Line("TTree and RNTuple have the same field count: TRUE") >>
                 ELSE << Line("TTree and RNTuple have the same field count: FALSE") >>)]

PrintFieldNameComparison(names, verbose) ==
    LET compareFields == \A i \in 1..Len(names) : names[i][1] = names[i][2]
    IN  IF ~verbose /\ compareFields THEN [ret |-> FALSE, lines |-> <<>>]
        ELSE [ret |-> TRUE,
              lines |-> << Line("*** Field Names ***") >>
                 \o [i \in 1..Len(names) |-> LineNum("field name row", i)]
                 \o (IF compareFields
                     THEN << Line("The fields have the same names: TRUE") >>
                     ELSE << Line("The fields have the same names: FALSE") >>)]

\* typeMap.count(t) ? typeMap[t] : "Missing"
TypeMapped(t) ==
    CASE t \in {T_Int_t, T_std_int32_t} -> T_int
      [] t \in {T_Float_t, T_float} -> T_float
      [] t \in {T_Double_t, T_double} -> T_double
      [] t \in {T_Bool_t, T_bool} -> T_bool
      [] t \in {T_std_vector_int32_t, T_std_vector_int, T_vector_int} -> T_vector_int
      [] t \in {T_std_vector_float, T_vector_float} -> T_vector_float
      [] t \in {T_std_vector_double, T_vector_double} -> T_vector_double
      [] t \in {T_std_vector_bool, T_vector_bool} -> T_vector_bool
      [] OTHER -> Missing

\* variant: the map holds the float -> double direction only
YellowMapped_OneWay(t) ==
    CASE t \in {T_Float_t, T_float} -> T_double
      [] t \in {T_std_vector_float, T_vector_float} -> T_vector_double
      [] OTHER -> Empty
\* yellowMap[t]; operator[] yields the empty string for an absent key
YellowMapped(t) ==
    CASE t \in {T_Float_t, T_float} -> T_double
      [] t \in {T_Double_t, T_double} -> T_float
      [] t \in {T_std_vector_float, T_vector_float} -> T_vector_double
      [] t \in {T_std_vector_double, T_vector_double} -> T_vector_float
      [] OTHER -> Empty

\* the near-match test of the pre-scan loop and of the printing loop
YellowInScan(a, b) == YellowMapped(a) = b \/ a = YellowMapped(b)
YellowInPrint(a, b) == YellowMapped(a) = b \/ a = YellowMapped(a)

\* One loop of PrintFieldTypeComparison over the triples i .. last, with the
\* running diffLevel and missingType; flags[i] is the level found at triple i
\* (0 when it is not flagged).
RECURSIVE TypeLoop(_, _, _, _, _, _)
TypeLoop(types, inScan, i, diffLevel, missingType, flags) ==
    IF i > Len(types)
    THEN [diffLevel |-> diffLevel, missingType |-> missingType, flags |-> flags]
    ELSE LET ttreeTypeMapped == TypeMapped(types[i][2])
             rntupTypeMapped == TypeMapped(types[i][3])
             missing == missingType \/ ttreeTypeMapped = Missing \/ rntupTypeMapped = Missing
             level == IF ~missing /\ ttreeTypeMapped # rntupTypeMapped
                      THEN (IF (IF inScan THEN YellowInScan(ttreeTypeMapped, rntupTypeMapped)
                                ELSE YellowInPrint(ttreeTypeMapped, rntupTypeMapped))
                            THEN 1 ELSE 2)
                      ELSE 0
         IN  TypeLoop(types, inScan, i + 1,
                      IF level # 0 THEN level ELSE diffLevel,
                      missing, Append(flags, level))

PrintFieldTypeComparison(types, verbose) ==
    LET scan == TypeLoop(types, TRUE, 1, 0, FALSE, <<>>)
        \* diffLevel is reset, missingType is kept
        print == TypeLoop(types, FALSE, 1, 0, scan.missingType, <<>>)
    IN  IF ~verbose /\ scan.diffLevel = 0 THEN [ret |-> FALSE, lines |-> <<>>]
        ELSE [ret |-> TRUE,
              lines |-> << Line("*** Field Types ***") >>
                 \o [i \in 1..Len(types) |->
                       CASE print.flags[i] = 1 -> LineNum("field type row   no exact match   ", i)
                         [] print.flags[i] = 2 -> LineNum("field type row   type mismatch   ", i)
                         [] OTHER -> LineNum("field type row", i)]
                 \o (IF print.missingType
                     THEN << Line("Field type comparison yields match failure due to unmatching fields.") >>
                     ELSE CASE print.diffLevel = 0 -> << Line("The fields have the same types: TRUE") >>
                            [] print.diffLevel = 1 -> << Line("The fields have the same types: NOT EXACTLY") >>
                            [] OTHER -> << Line("The fields have the same types: FALSE") >>)]

\* the three rows PrintComparisonTable prints for bucket k, when either side
\* has data
ComparisonTable(dataT, dataR, k) ==
    IF dataT[k].count > 0 \/ dataR[k].count > 0
    THEN << LineNum("Count", k), LineNum("Mean", k), LineNum("StdDev", k) >>
    ELSE <<>>

\* bucket k sets allMatched to false
BucketMismatch(dataT, dataR, k) ==
    /\ dataT[k].count > 0 \/ dataR[k].count > 0
    /\ \/ CountMismatch(dataT[k], dataR[k])
       \/ MeanMismatch(dataT[k], dataR[k])
       \/ StdDevMismatch(dataT[k], dataR[k])

HistogramDrawStat(dataT, dataR, verbose) ==
    IF ~verbose THEN <<>>
    ELSE LET rows == ComparisonTable(dataT, dataR, 1) \o ComparisonTable(dataT, dataR, 2)
                     \o ComparisonTable(dataT, dataR, 3) \o ComparisonTable(dataT, dataR, 4)
             allMatched == \A k \in 1..4 : ~BucketMismatch(dataT, dataR, k)
         IN  (IF rows # <<>> THEN << Line("*** Histograms ***") >> ELSE <<>>)
             \o rows
             \o (IF allMatched
                 THEN << Line("All histogram statistics match: TRUE") >>
                 ELSE << Line("All histogram statistics match: FALSE") >>)

\* ------------------------------------------------------------ the state
VARIABLES
    argv,          \* main's argv[1 .. argc - 1]
    config,        \* the CheckerConfig handed to Compare
    exitStatus,    \* the status main has exited with
    error,         \* the std::runtime_error thrown by Checker::Checker
    tree,          \* the opened TTree: its branches with leaf type and rows
    ntuple,        \* the opened RNTuple: its field descriptors and rows
    fVerbose,      \* CheckerCLI::fVerbose
    pc,            \* position of CheckerCLI::Compare
    output,        \* Compare's local flag 'output'
    out,           \* the lines printed so far
    entries,       \* result of CountEntries
    fields,        \* result of CountFields
    fieldNames,    \* result of CompareFieldNames
    fieldTypes,    \* result of CompareFieldTypes
    histT,         \* result of HistTTree
    histR,         \* result of HistRNTuple
    bufT,          \* the values read from the TTree: int, float, double, bool
    bufR,          \* the values read from the RNTuple: int, float, double, bool
    vectorType,    \* the argument of ExtractSubFieldType
    subFieldType,  \* the string ExtractSubFieldType returns
    subFields      \* result of CompareSubFields

vars == <<argv, config, exitStatus, error, tree, ntuple, fVerbose, pc, output, out, entries, fields,
          fieldNames, fieldTypes, histT, histR, bufT, bufR, vectorType,
          subFieldType, subFields>>

\* ------------------------------------------------------------- Compare
\* What the result variables hold before their stage has run.
None == <<>>

\* the exit status while the process runs
Running == "running"

\* The two files on disk and the datasets in them.
DiskTTreeFile == "test_ttree.root"
DiskRNTupleFile == "test_rntuple.root"
DiskTTreeName == "tree_0"
DiskRNTupleName == "rntuple_0"

\* a path and a dataset name that are not on disk
NoSuchFile == "no_such_file.root"
NoSuchName == "no_such_name"

\* the configuration that names the two datasets on disk
DiskConfig ==
    [fTTreeFile |-> DiskTTreeFile, fRNTupleFile |-> DiskRNTupleFile,
     fTTreeName |-> DiskTTreeName, fRNTupleName |-> DiskRNTupleName, fShouldRun |-> TRUE]

\* a default-constructed CheckerConfig
DefaultConfig ==
    [fTTreeFile |-> "", fRNTupleFile |-> "", fTTreeName |-> "", fRNTupleName |-> "",
     fShouldRun |-> FALSE]

\* TFile::Open(path) yields a file that is not a zombie
FileOpens(path) == path \in {DiskTTreeFile, DiskRNTupleFile}

\* Checker::TTreeExists: the file holds a TTree of that name
TTreeExists(cfg) ==
    FileOpens(cfg.fTTreeFile) /\ cfg.fTTreeFile = DiskTTreeFile /\ cfg.fTTreeName = DiskTTreeName

\* Checker::RNTupleExists: the file holds a key of class RNTuple and that name
RNTupleExists(cfg) ==
    FileOpens(cfg.fRNTupleFile) /\ cfg.fRNTupleFile = DiskRNTupleFile
        /\ cfg.fRNTupleName = DiskRNTupleName

\* the std::runtime_error of the constructor: its text and the strings
\* appended to it
RuntimeError(what, names) == [what |-> what, names |-> names]

\* variant: the RNTuple is not looked for in its file
CheckerError_NoRNTupleCheck(cfg) ==
    IF ~FileOpens(cfg.fTTreeFile)
    THEN RuntimeError("Cannot open TTree file: ", << cfg.fTTreeFile >>)
    ELSE IF ~TTreeExists(cfg)
    THEN RuntimeError("Cannot find TTree: ", << cfg.fTTreeName, cfg.fTTreeFile >>)
    ELSE IF ~FileOpens(cfg.fRNTupleFile)
    THEN RuntimeError("Cannot open RNTuple file: ", << cfg.fRNTupleFile >>)
    ELSE None
\* Checker::Checker: the exception it throws, None when it returns
CheckerError(cfg) ==
    IF ~FileOpens(cfg.fTTreeFile)
    THEN RuntimeError("Cannot open TTree file: ", << cfg.fTTreeFile >>)
    ELSE IF ~TTreeExists(cfg)
    THEN RuntimeError("Cannot find TTree: ", << cfg.fTTreeName, cfg.fTTreeFile >>)
    ELSE IF ~FileOpens(cfg.fRNTupleFile)
    THEN RuntimeError("Cannot open RNTuple file: ", << cfg.fRNTupleFile >>)
    ELSE IF ~RNTupleExists(cfg)
    THEN RuntimeError("Cannot find RNTuple: ", << cfg.fRNTupleName, cfg.fRNTupleFile >>)
    ELSE None

\* the datasets the two files on disk can hold
DrawDatasets ==
    \E kinds \in SeqsUpTo(DataKinds) :
    \E edits \in [1..Len(kinds) -> Edits] :
    \E tn \in 1..MaxRows, rn \in 1..MaxRows, shift \in 0..MaxVal :
        /\ tree = MakeTree(kinds, tn)
        /\ ntuple = MakeNTuple(kinds, edits, rn, shift)

\* Compare with the Checker constructed over the two datasets on disk
Init ==
    /\ DrawDatasets
    /\ argv = None
    /\ config = DiskConfig
    /\ exitStatus = Running
    /\ error = None
    /\ fVerbose \in BOOLEAN
    /\ pc = "CountEntries"
    /\ output = FALSE
    /\ out = <<>>
    /\ entries = None
    /\ fields = None
    /\ fieldNames = None
    /\ fieldTypes = None
    /\ histT = None
    /\ histR = None
    /\ bufT = None
    /\ bufR = None
    /\ vectorType = None
    /\ subFieldType = None
    /\ subFields = None

\* methodoutput = Print...(...); if (methodoutput) output = true;
Section(res) ==
    /\ output' = (output \/ res.ret)
    /\ out' = out \o res.lines

CompareEntryCount ==
    /\ pc = "CountEntries"
    /\ entries' = CountEntries(tree, ntuple)
    /\ Section(PrintEntryComparison(entries', fVerbose))
    /\ pc' = "CountFields"
    /\ UNCHANGED <<argv, config, exitStatus, error, tree, ntuple, fVerbose, fields, fieldNames, fieldTypes, histT, histR, bufT, bufR, vectorType, subFieldType, subFields>>

CompareFieldCount ==
    /\ pc = "CountFields"
    /\ fields' = CountFields(tree, ntuple)
    /\ Section(PrintFieldComparison(fields', fVerbose))
    /\ pc' = "CompareFieldNames"
    /\ UNCHANGED <<argv, config, exitStatus, error, tree, ntuple, fVerbose, entries, fieldNames, fieldTypes, histT, histR, bufT, bufR, vectorType, subFieldType, subFields>>

CompareNames ==
    /\ pc = "CompareFieldNames"
    /\ \E order \in IterationOrders(Leftovers(tree, ntuple)) :
           fieldNames' = CompareFieldNames(tree, ntuple, order)
    /\ Section(PrintFieldNameComparison(fieldNames', fVerbose))
    /\ pc' = "CompareFieldTypes"
    /\ UNCHANGED <<argv, config, exitStatus, error, tree, ntuple, fVerbose, entries, fields, fieldTypes, histT, histR, bufT, bufR, vectorType, subFieldType, subFields>>

CompareTypes ==
    /\ pc = "CompareFieldTypes"
    /\ \E order \in IterationOrders(Leftovers(tree, ntuple)) :
           fieldTypes' = CompareFieldTypes(tree, ntuple, order)
    /\ Section(PrintFieldTypeComparison(fieldTypes', fVerbose))
    /\ pc' = "Histograms"
    /\ UNCHANGED <<argv, config, exitStatus, error, tree, ntuple, fVerbose, entries, fields, fieldNames, histT, histR, bufT, bufR, vectorType, subFieldType, subFields>>

\* HistTTree(...), HistRNTuple(...), HistogramDrawStat(...) and the closing
\* summary; an exception of a reader leaves Compare.
CompareHistograms ==
    /\ pc = "Histograms"
    /\ \E coerce \in BOOLEAN :
         LET ri == ReadIntFromRNTuple(ntuple, coerce)
             rf == ReadFloatFromRNTuple(ntuple)
             rd == ReadDoubleFromRNTuple(ntuple)
             rb == ReadBoolFromRNTuple(ntuple)
             valuesT == << ReadIntFromTTree(tree), ReadFloatFromTTree(tree),
                           ReadDoubleFromTTree(tree), ReadBoolFromTTree(tree) >>
             dataT == HistTTree(valuesT[1], valuesT[2], valuesT[3], valuesT[4])
         IN  IF ri.thrown \/ rf.thrown \/ rd.thrown \/ rb.thrown
             THEN /\ pc' = "thrown"
                  /\ bufT' = valuesT
                  /\ histT' = dataT
                  /\ UNCHANGED <<histR, bufR, out>>
             ELSE LET dataR == HistRNTuple(ri.values, rf.values, rd.values, rb.values)
                  IN  /\ pc' = "done"
                      /\ bufT' = valuesT
                      /\ bufR' = << ri.values, rf.values, rd.values, rb.values >>
                      /\ histT' = dataT
                      /\ histR' = dataR
                      /\ out' = out \o HistogramDrawStat(dataT, dataR, fVerbose)
                                    \o (IF ~output THEN << SuccessLine >> ELSE <<>>)
    /\ UNCHANGED <<argv, config, exitStatus, error, tree, ntuple, fVerbose, output, entries, fields, fieldNames, fieldTypes, vectorType, subFieldType, subFields>>

Next ==
    \/ CompareEntryCount
    \/ CompareFieldCount
    \/ CompareNames
    \/ CompareTypes
    \/ CompareHistograms

Spec == Init /\ [][Next]_vars

\* ------------------------------------- Compare from the constructor on
\* The configurations Compare can be called with.
Configs ==
    [fTTreeFile : {DiskTTreeFile, NoSuchFile}, fRNTupleFile : {DiskRNTupleFile, NoSuchFile},
     fTTreeName : {DiskTTreeName, NoSuchName}, fRNTupleName : {DiskRNTupleName, NoSuchName},
     fShouldRun : {TRUE}]

InitOpen ==
    /\ argv = None
    /\ config \in Configs
    /\ exitStatus = Running
    /\ error = None
    /\ IF config = DiskConfig THEN DrawDatasets ELSE tree = None /\ ntuple = None
    /\ fVerbose \in BOOLEAN
    /\ pc = "Checker"
    /\ output = FALSE
    /\ out = <<>>
    /\ entries = None
    /\ fields = None
    /\ fieldNames = None
    /\ fieldTypes = None
    /\ histT = None
    /\ histR = None
    /\ bufT = None
    /\ bufR = None
    /\ vectorType = None
    /\ subFieldType = None
    /\ subFields = None

\* Checker checker(config.fTTreeFile, config.fRNTupleFile, config.fTTreeName,
\* config.fRNTupleName); an exception of the constructor leaves Compare.
ConstructChecker ==
    /\ pc = "Checker"
    /\ error' = CheckerError(config)
    /\ pc' = IF error' # None THEN "unavailable" ELSE "CountEntries"
    /\ UNCHANGED <<argv, config, exitStatus, tree, ntuple, fVerbose, output, out, entries,
                   fields, fieldNames, fieldTypes, histT, histR, bufT, bufR, vectorType, subFieldType, subFields>>

NextOpen ==
    \/ ConstructChecker
    \/ CompareEntryCount
    \/ CompareFieldCount
    \/ CompareNames
    \/ CompareTypes
    \/ CompareHistograms

SpecOpen == InitOpen /\ [][NextOpen]_vars

\* ---------------------------------------------------------------- main
\* The command lines main is started with: up to MaxPairs pairs of an
\* option and the word after it, and at most one more word.
MaxPairs == 5
ArgPairs ==
    { << "-t", DiskTTreeFile >>, << "-r", DiskRNTupleFile >>, << "-tn", DiskTTreeName >>,
      << "-rn", DiskRNTupleName >>, << "-v", "x" >>, << "-x", "x" >> }
LastWords == { <<>>, << "-v" >>, << "-rn" >>, << "-x" >> }

RECURSIVE Flatten(_)
Flatten(pairs) == IF pairs = <<>> THEN <<>> ELSE Head(pairs) \o Flatten(Tail(pairs))

InitMain ==
    /\ \E m \in 0..MaxPairs : \E pairs \in [1..m -> ArgPairs] : \E last \in LastWords :
           argv = Flatten(pairs) \o last
    /\ config = DefaultConfig
    /\ exitStatus = Running
    /\ error = None
    /\ tree = MakeTree(<< "int" >>, 1)
    /\ ntuple = MakeNTuple(<< "int" >>, << "same" >>, 1, 0)
    /\ fVerbose = FALSE
    /\ pc = "main"
    /\ output = FALSE
    /\ out = <<>>
    /\ entries = None
    /\ fields = None
    /\ fieldNames = None
    /\ fieldTypes = None
    /\ histT = None
    /\ histR = None
    /\ bufT = None
    /\ bufR = None
    /\ vectorType = None
    /\ subFieldType = None
    /\ subFields = None

\* argc
Argc(args) == Len(args) + 1

\* The option loop of main from argv[i] on. argv[argc] is the null pointer:
\* assigning it to a std::string is undefined, 'undefined' is what the build
\* makes of it ("crash", or the string it reads there).
RECURSIVE ParseLoop(_, _, _, _, _)
ParseLoop(args, i, cfg, verbose, undefined) ==
    IF i >= Argc(args) THEN [end |-> "parsed", cfg |-> cfg, verbose |-> verbose, arg |-> ""]
    ELSE LET arg == args[i]
             value == IF i + 1 < Argc(args) THEN args[i + 1] ELSE undefined
         IN  IF arg \in {"-t", "-r", "-tn", "-rn"} /\ value = "crash"
             THEN [end |-> "crash", cfg |-> cfg, verbose |-> verbose, arg |-> arg]
             ELSE CASE arg = "-t" ->
                         ParseLoop(args, i + 2, [cfg EXCEPT !.fTTreeFile = value], verbose, undefined)
                    [] arg = "-r" ->
                         ParseLoop(args, i + 2, [cfg EXCEPT !.fRNTupleFile = value], verbose, undefined)
                    [] arg = "-tn" ->
                         ParseLoop(args, i + 2, [cfg EXCEPT !.fTTreeName = value], verbose, undefined)
                    [] arg = "-rn" ->
                         ParseLoop(args, i + 2, [cfg EXCEPT !.fRNTupleName = value], verbose, undefined)
                    [] arg = "-v" -> ParseLoop(args, i + 2, cfg, TRUE, undefined)
                    [] OTHER -> [end |-> "unknown", cfg |-> cfg, verbose |-> verbose, arg |-> arg]

UsageLine == Line("Usage: <program> -t <ttreeFile> -r <rntupleFile> -tn <ttreeName> -rn <rntupleName>")
UnknownOptionLine == Line("Unknown option: ")

\* main up to the call of cli.RunAll(config)
Main ==
    /\ pc = "main"
    /\ IF Argc(argv) < 9
       THEN /\ out' = out \o << UsageLine >>
            /\ exitStatus' = "1"
            /\ pc' = "exited"
            /\ UNCHANGED <<config, fVerbose>>
       ELSE \E undefined \in {"crash", ""} :
            LET res == ParseLoop(argv, 1, DefaultConfig, FALSE, undefined)
            IN  CASE res.end = "unknown" ->
                       /\ out' = out \o << UnknownOptionLine >>
                       /\ exitStatus' = "1"
                       /\ pc' = "exited"
                       /\ UNCHANGED <<config, fVerbose>>
                  [] res.end = "crash" ->
                       /\ exitStatus' = "abort"
                       /\ pc' = "exited"
                       /\ UNCHANGED <<config, fVerbose, out>>
                  [] OTHER ->
                       /\ config' = [res.cfg EXCEPT !.fShouldRun = TRUE]
                       /\ fVerbose' = res.verbose
                       /\ pc' = "Checker"
                       /\ UNCHANGED <<exitStatus, out>>
    /\ UNCHANGED <<argv, error, tree, ntuple, output, entries, fields, fieldNames, fieldTypes,
                   histT, histR, bufT, bufR, vectorType, subFieldType, subFields>>

\* cli.RunAll(config) is over: main returns 0, or the exception nobody
\* caught ends the process
MainReturns ==
    /\ pc \in {"done", "thrown", "unavailable"}
    /\ exitStatus = Running
    /\ exitStatus' = IF pc = "done" THEN "0" ELSE "abort"
    /\ pc' = "exited"
    /\ UNCHANGED <<argv, config, error, tree, ntuple, fVerbose, output, out, entries, fields,
                   fieldNames, fieldTypes, histT, histR, bufT, bufR, vectorType, subFieldType, subFields>>

NextMain ==
    \/ Main
    \/ ConstructChecker
    \/ CompareEntryCount
    \/ CompareFieldCount
    \/ CompareNames
    \/ CompareTypes
    \/ CompareHistograms
    \/ MainReturns

SpecMain == InitMain /\ [][NextMain]_vars

\* --------------------------------------------- CompareSubFields as a query
\* The datasets CompareSubFields is applied to: vector fields of supported
\* and of unsupported element types, under names that are, contain, or are
\* free of the reserved "_0".
InitSubFields ==
    /\ \E kinds \in SeqsUpTo({"vint", "vuint", "vstring"}) :
       \E names \in [1..Len(kinds) -> {N_value, N_energy, N_pt_0, N_0}] :
       \E edits \in [1..Len(kinds) -> {"same", "retype", "drop"}] :
       \E tn \in 1..MaxRows, rn \in 1..MaxRows, shift \in 0..MaxVal :
           /\ \A a, b \in 1..Len(kinds) : names[a] = names[b] => a = b
           /\ tree = NamedTree(names, kinds, tn)
           /\ ntuple = NamedNTuple(names, kinds, edits, rn, shift)
    /\ argv = None
    /\ config = DiskConfig
    /\ exitStatus = Running
    /\ error = None
    /\ fVerbose = FALSE
    /\ pc = "CompareSubFields"
    /\ output = FALSE
    /\ out = <<>>
    /\ entries = None
    /\ fields = None
    /\ fieldNames = None
    /\ fieldTypes = None
    /\ histT = None
    /\ histR = None
    /\ bufT = None
    /\ bufR = None
    /\ vectorType = None
    /\ subFieldType = None
    /\ subFields = None

CallCompareSubFields ==
    /\ pc = "CompareSubFields"
    /\ \E coerce \in BOOLEAN :
         LET res == CompareSubFields(tree, ntuple, coerce)
         IN  IF res.thrown
             THEN pc' = "thrown" /\ UNCHANGED subFields
             ELSE pc' = "returned" /\ subFields' = res.rows
    /\ UNCHANGED <<argv, config, exitStatus, error, tree, ntuple, fVerbose, output, out, entries, fields, fieldNames,
                   fieldTypes, histT, histR, bufT, bufR, vectorType, subFieldType>>

NextSubFields == CallCompareSubFields

SpecSubFields == InitSubFields /\ [][NextSubFields]_vars

\* ------------------------------------- the printing sections as functions
\* The inputs the four sections are applied to.
MaxTriples == 2
CountValues == 0..2
NameValues == {N_value, N_energy, NoMatch}
TypeValues == {T_Int_t, T_std_int32_t, T_Float_t, T_double, T_UInt_t,
               T_vector_float, T_std_vector_double, NoMatch}

InitPrint ==
    /\ argv = None
    /\ config = None
    /\ exitStatus = Running
    /\ error = None
    /\ tree = None
    /\ ntuple = None
    /\ fVerbose \in BOOLEAN
    /\ output = FALSE
    /\ out = <<>>
    /\ histT = None
    /\ histR = None
    /\ bufT = None
    /\ bufR = None
    /\ vectorType = None
    /\ subFieldType = None
    /\ subFields = None
    /\ \/ /\ pc = "PrintEntryComparison"
          /\ entries \in CountValues \X CountValues
          /\ fields = None /\ fieldNames = None /\ fieldTypes = None
       \/ /\ pc = "PrintFieldComparison"
          /\ fields \in CountValues \X CountValues
          /\ entries = None /\ fieldNames = None /\ fieldTypes = None
       \/ /\ pc = "PrintFieldNameComparison"
          /\ fieldNames \in UNION {[1..m -> NameValues \X NameValues] : m \in 1..MaxTriples}
          /\ entries = None /\ fields = None /\ fieldTypes = None
       \/ /\ pc = "PrintFieldTypeComparison"
          /\ fieldTypes \in UNION {[1..m -> {N_value} \X TypeValues \X TypeValues] : m \in 1..MaxTriples}
          /\ entries = None /\ fields = None /\ fieldNames = None

CallPrintEntryComparison ==
    /\ pc = "PrintEntryComparison"
    /\ Section(PrintEntryComparison(entries, fVerbose))
    /\ pc' = "returned"
    /\ UNCHANGED <<argv, config, exitStatus, error, tree, ntuple, fVerbose, entries, fields, fieldNames, fieldTypes, histT, histR, bufT, bufR, vectorType, subFieldType, subFields>>

CallPrintFieldComparison ==
    /\ pc = "PrintFieldComparison"
    /\ Section(PrintFieldComparison(fields, fVerbose))
    /\ pc' = "returned"
    /\ UNCHANGED <<argv, config, exitStatus, error, tree, ntuple, fVerbose, entries, fields, fieldNames, fieldTypes, histT, histR, bufT, bufR, vectorType, subFieldType, subFields>>

CallPrintFieldNameComparison ==
    /\ pc = "PrintFieldNameComparison"
    /\ Section(PrintFieldNameComparison(fieldNames, fVerbose))
    /\ pc' = "returned"
    /\ UNCHANGED <<argv, config, exitStatus, error, tree, ntuple, fVerbose, entries, fields, fieldNames, fieldTypes, histT, histR, bufT, bufR, vectorType, subFieldType, subFields>>

CallPrintFieldTypeComparison ==
    /\ pc = "PrintFieldTypeComparison"
    /\ Section(PrintFieldTypeComparison(fieldTypes, fVerbose))
    /\ pc' = "returned"
    /\ UNCHANGED <<argv, config, exitStatus, error, tree, ntuple, fVerbose, entries, fields, fieldNames, fieldTypes, histT, histR, bufT, bufR, vectorType, subFieldType, subFields>>

NextPrint ==
    \/ CallPrintEntryComparison
    \/ CallPrintFieldComparison
    \/ CallPrintFieldNameComparison
    \/ CallPrintFieldTypeComparison

SpecPrint == InitPrint /\ [][NextPrint]_vars

\* ---------------------------------- ExtractSubFieldType as a function
\* The type spellings the function is applied to: the spellings the two
\* files produce, nested containers, and every string of at most
\* MaxSpelling characters over angle brackets and a letter.
MaxSpelling == 5
Spellings ==
    {T_Int_t, T_Float_t, T_Double_t, T_Bool_t, T_UInt_t,
     T_vector_int, T_vector_float, T_vector_double, T_vector_bool,
     T_std_int32_t, T_float, T_double, T_bool, T_std_uint32_t,
     T_std_vector_int32_t, T_std_vector_float, T_std_vector_double,
     T_std_vector_bool,
     S_vector \o <<"<">> \o T_vector_int \o <<">">>,
     S_std_vector_lt \o T_std_vector_float \o <<">">>}
    \cup UNION {[1..m -> {"<", ">", "v"}] : m \in 0..MaxSpelling}

InitExtract ==
    /\ argv = None
    /\ config = None
    /\ exitStatus = Running
    /\ error = None
    /\ tree = None
    /\ ntuple = None
    /\ fVerbose = FALSE
    /\ output = FALSE
    /\ out = <<>>
    /\ entries = None
    /\ fields = None
    /\ fieldNames = None
    /\ fieldTypes = None
    /\ histT = None
    /\ histR = None
    /\ bufT = None
    /\ bufR = None
    /\ vectorType \in Spellings
    /\ subFieldType = None
    /\ subFields = None
    /\ pc = "ExtractSubFieldType"

CallExtractSubFieldType ==
    /\ pc = "ExtractSubFieldType"
    /\ subFieldType' = ExtractSubFieldType(vectorType)
    /\ pc' = "returned"
    /\ UNCHANGED <<argv, config, exitStatus, error, tree, ntuple, fVerbose, output, out, entries, fields, fieldNames,
                   fieldTypes, histT, histR, bufT, bufR, vectorType, subFields>>

NextExtract == CallExtractSubFieldType

SpecExtract == InitExtract /\ [][NextExtract]_vars

\* ------------------------------------------- CountEntries on large files
\* The 64-bit entry counts of the two files: every combination of the
\* limbs below, among them counts beyond 2^31 and beyond 2^32.
MaxHi == 1
EntryCounts == [hi : 0..MaxHi, mid : {0, 1, 32768, 65535}, lo : {0, 1, 65535}]

InitCount ==
    /\ \E ct \in EntryCounts, cr \in EntryCounts :
          /\ tree = [count |-> ct, branches |-> <<>>]
          /\ ntuple = [count |-> cr, desc |-> << FieldZero >>]
    /\ argv = None
    /\ config = DiskConfig
    /\ exitStatus = Running
    /\ error = None
    /\ fVerbose \in BOOLEAN
    /\ pc = "CountEntries"
    /\ output = FALSE
    /\ out = <<>>
    /\ entries = None
    /\ fields = None
    /\ fieldNames = None
    /\ fieldTypes = None
    /\ histT = None
    /\ histR = None
    /\ bufT = None
    /\ bufR = None
    /\ vectorType = None
    /\ subFieldType = None
    /\ subFields = None

\* PrintEntryComparison(checker.CountEntries())
CallCountEntries ==
    /\ pc = "CountEntries"
    /\ entries' = CountEntries(tree, ntuple)
    /\ Section(PrintEntryComparison(entries', fVerbose))
    /\ pc' = "returned"
    /\ UNCHANGED <<argv, config, exitStatus, error, tree, ntuple, fVerbose, fields, fieldNames, fieldTypes, histT, histR, bufT, bufR, vectorType, subFieldType, subFields>>

NextCount == CallCountEntries

SpecCount == InitCount /\ [][NextCount]_vars

\* ====================================================== the properties
\* the top-level fields of the RNTuple, in declaration order
TopLevel == SelectSeq(ntuple.desc, LAMBDA f : f.top)

\* the spellings the two files give one kind of value
KindSpellings == {<< TreeTypeName(k), NTupleTypeName(k) >> : k \in ScalarKinds \cup VectorKinds}

\* both files declare the same fields: same names, same kinds, same order
SameSchema ==
    /\ Len(TopLevel) = Len(tree.branches)
    /\ \A j \in 1..Len(tree.branches) :
          /\ TopLevel[j].name = tree.branches[j].name
          /\ << tree.branches[j].type, TopLevel[j].type >> \in KindSpellings

\* both files hold the same rows
SameData ==
    /\ tree.rows = ntuple.rows
    /\ \A j \in 1..Len(tree.branches) : TopLevel[j].data = tree.branches[j].data

\* the common rows agree, the row counts differ
OnlyRowCountDiffers ==
    /\ SameSchema
    /\ tree.rows # ntuple.rows
    /\ \A j \in 1..Len(tree.branches) :
       \A i \in 1..tree.rows :
           i <= ntuple.rows => TopLevel[j].data[i] = tree.branches[j].data[i]

\* positions of Compare
AfterEntries == pc \in {"CountFields", "CompareFieldNames", "CompareFieldTypes", "Histograms", "done", "thrown"}
AfterFields == pc \in {"CompareFieldNames", "CompareFieldTypes", "Histograms", "done", "thrown"}
AfterNames == pc \in {"CompareFieldTypes", "Histograms", "done", "thrown"}
AfterTypes == pc \in {"Histograms", "done", "thrown"}
Finished == pc \in {"done", "thrown"}

Printed(line) == \E i \in 1..Len(out) : out[i] = line
TimesPrinted(line) == Cardinality({i \in 1..Len(out) : out[i] = line})

\* Compare reported the overall pass
ReportsPass == pc = "done" /\ Printed(SuccessLine)

\* the classification of one triple of types
IsExact(a, b) == TypeMapped(a) # Missing /\ TypeMapped(b) # Missing /\ TypeMapped(a) = TypeMapped(b)

\* every declared type is in the type table of the type comparison
KnownTypes ==
    /\ \A j \in 1..Len(tree.branches) : TypeMapped(tree.branches[j].type) # Missing
    /\ \A j \in 1..Len(TopLevel) : TypeMapped(TopLevel[j].type) # Missing

\* C1: for two datasets with identical schema (of types the type table
\* knows) and identical row data the
\* entry counts are equal, the field counts are equal, every name entry has
\* the same name on both sides, every type triple is Exact, and Compare
\* reports the overall pass.
C1_IdenticalDatasetsPass ==
    (SameSchema /\ KnownTypes /\ SameData) =>
        /\ AfterEntries => entries[1] = entries[2]
        /\ AfterFields => fields[1] = fields[2]
        /\ AfterNames => \A i \in 1..Len(fieldNames) : fieldNames[i][1] = fieldNames[i][2]
        /\ AfterTypes => \A i \in 1..Len(fieldTypes) : IsExact(fieldTypes[i][2], fieldTypes[i][3])
        /\ Finished => ReportsPass

\* every entry of CompareSubFields has equal totals
SubFieldsAgree ==
    LET res == CompareSubFields(tree, ntuple, FALSE)
    IN  ~res.thrown /\ \A i \in 1..Len(res.rows) : res.rows[i].ttreeCount = res.rows[i].rntupleCount

\* every pair of distribution summaries is equal
SummariesAgree ==
    \A k \in 1..4 :
        /\ ~CountMismatch(histT[k], histR[k])
        /\ ~MeanMismatch(histT[k], histR[k])
        /\ ~StdDevMismatch(histT[k], histR[k])

\* C2: Compare reports the overall pass if and only if the entry counts are
\* equal, the field counts are equal, every name entry has both sides, every
\* matched pair of types is Exact, every subfield comparison has equal totals
\* and every pair of distribution summaries is equal.
C2_PassIffAllSectionsAgree ==
    pc = "done" =>
        (ReportsPass <=>
            /\ entries[1] = entries[2]
            /\ fields[1] = fields[2]
            /\ \A i \in 1..Len(fieldNames) : fieldNames[i][1] # NoMatch /\ fieldNames[i][2] # NoMatch
            /\ \A i \in 1..Len(fieldTypes) :
                  (fieldTypes[i][2] # NoMatch /\ fieldTypes[i][3] # NoMatch)
                     => IsExact(fieldTypes[i][2], fieldTypes[i][3])
            /\ SubFieldsAgree
            /\ SummariesAgree)

\* C3: for two datasets that differ only in row count, CountEntries returns
\* the two true, different counts, the entry-count section prints both, and
\* Compare does not report the overall pass.
C3_RowCountDifference ==
    OnlyRowCountDiffers =>
        /\ AfterEntries =>
              /\ entries = << tree.rows, ntuple.rows >>
              /\ entries[1] # entries[2]
              /\ Printed(LineNum("Number of entries in TTree: ", tree.rows))
              /\ Printed(LineNum("Number of entries in RNTuple: ", ntuple.rows))
        /\ ~Printed(SuccessLine)

\* a run over datasets that differ only in row count has finished
C3_Witness == OnlyRowCountDiffers /\ pc = "done"

\* the names of the branches, and of the columnar fields that are not
\* excluded (the last descriptor and every "_0" are)
BranchNames == {tree.branches[j].name : j \in 1..Len(tree.branches)}
NonExcludedNames ==
    {ntuple.desc[i].name : i \in {k \in 1..(Len(ntuple.desc) - 1) : ntuple.desc[k].name # N_0}}

\* a list of (row-side name, columnar name) pairs is a one-to-one pairing by
\* exact name
OneToOneByName(pairs) ==
    /\ \A b \in BranchNames : Cardinality({i \in 1..Len(pairs) : pairs[i][1] = b}) = 1
    /\ \A c \in NonExcludedNames : Cardinality({i \in 1..Len(pairs) : pairs[i][2] = c}) = 1
    /\ \A i \in 1..Len(pairs) :
          /\ pairs[i][1] \in BranchNames \cup {NoMatch}
          /\ pairs[i][2] \in NonExcludedNames \cup {NoMatch}
          /\ pairs[i][1] # NoMatch \/ pairs[i][2] # NoMatch
          /\ pairs[i][1] = pairs[i][2] \/ pairs[i][1] = NoMatch \/ pairs[i][2] = NoMatch
    /\ \A b \in BranchNames \ NonExcludedNames :
          \E i \in 1..Len(pairs) : pairs[i] = << b, NoMatch >>
    /\ \A c \in NonExcludedNames \ BranchNames :
          \E i \in 1..Len(pairs) : pairs[i] = << NoMatch, c >>

\* the sides a type triple pairs
TriplePairs ==
    [i \in 1..Len(fieldTypes) |->
        << IF fieldTypes[i][2] = NoMatch THEN NoMatch ELSE fieldTypes[i][1],
           IF fieldTypes[i][3] = NoMatch THEN NoMatch ELSE fieldTypes[i][1] >>]

\* C4: CompareFieldNames and CompareFieldTypes pair the fields one-to-one by
\* exact name: every branch and every non-excluded columnar field is in
\* exactly one entry, and fields of different names are two unmatched
\* entries, one per side.
C4_OneToOneMatching ==
    /\ AfterNames => OneToOneByName(fieldNames)
    /\ AfterTypes => OneToOneByName(TriplePairs)

\* both results are there, with a matched pair and an unmatched field on
\* each side
C4_Witness ==
    /\ AfterTypes
    /\ \E i \in 1..Len(fieldNames) : fieldNames[i][1] = fieldNames[i][2]
    /\ \E i \in 1..Len(fieldNames) : fieldNames[i][1] = NoMatch
    /\ \E i \in 1..Len(fieldNames) : fieldNames[i][2] = NoMatch

\* the columnar-only names in the order of the catalog
RECURSIVE CatalogLeftovers(_)
CatalogLeftovers(i) ==
    IF i > Len(ntuple.desc) - 1 THEN <<>>
    ELSE (IF ntuple.desc[i].name # N_0 /\ ntuple.desc[i].name \notin BranchNames
          THEN << ntuple.desc[i].name >> ELSE <<>>) \o CatalogLeftovers(i + 1)

\* C5: the entries of CompareFieldNames and CompareFieldTypes are the
\* branches in declaration order, then the columnar-only fields in the order
\* of the columnar catalog.
C5_DeclarationOrder ==
    /\ AfterNames =>
          fieldNames =
             [j \in 1..Len(tree.branches) |->
                 << tree.branches[j].name,
                    IF tree.branches[j].name \in NonExcludedNames
                    THEN tree.branches[j].name ELSE NoMatch >>]
             \o [i \in 1..Len(CatalogLeftovers(1)) |-> << NoMatch, CatalogLeftovers(1)[i] >>]
    /\ AfterTypes =>
          [i \in 1..Len(fieldTypes) |-> fieldTypes[i][1]] =
             [j \in 1..Len(tree.branches) |-> tree.branches[j].name] \o CatalogLeftovers(1)

\* the row source has 'energy', the columnar source has a double 'mass' in
\* its place, every other field is the same
EnergyMassScenario ==
    /\ Len(TopLevel) = Len(tree.branches)
    /\ \E j \in 1..Len(tree.branches) :
          /\ tree.branches[j].name = N_energy
          /\ tree.branches[j].type = T_Double_t
          /\ TopLevel[j].name = N_mass
          /\ TopLevel[j].type = T_double
          /\ \A k \in 1..Len(tree.branches) :
                k # j => /\ TopLevel[k].name = tree.branches[k].name
                         /\ << tree.branches[k].type, TopLevel[k].type >> \in KindSpellings

\* C6 as claimed: with 'energy' on the row side and a same-typed 'mass' on
\* the columnar side, the field-count comparison reports a mismatch.
C6_FieldCountMismatch ==
    (EnergyMassScenario /\ AfterFields) =>
        /\ fields[1] # fields[2]
        /\ Printed(Line("TTree and RNTuple have the same field count: FALSE"))

\* C6 as amended: in that scenario the two field counts are equal and no
\* field-count mismatch is printed; the difference shows in the name
\* comparison as two unmatched entries, one per side.
C6_FieldCountsEqualNamesDiffer ==
    EnergyMassScenario =>
        /\ AfterFields =>
              /\ fields[1] = fields[2]
              /\ fields[1] = Len(tree.branches)
              /\ ~Printed(Line("TTree and RNTuple have the same field count: FALSE"))
        /\ AfterNames =>
              /\ \E i \in 1..Len(fieldNames) : fieldNames[i] = << N_energy, NoMatch >>
              /\ \E i \in 1..Len(fieldNames) : fieldNames[i] = << NoMatch, N_mass >>

\* a run over the energy / mass scenario has compared the names
C6_Witness == EnergyMassScenario /\ AfterNames /\ fields[1] = fields[2]

\* no section has anything to report: equal counts, equal names, every type
\* Exact, equal distribution summaries
NoDiscrepancy ==
    /\ entries[1] = entries[2]
    /\ fields[1] = fields[2]
    /\ \A i \in 1..Len(fieldNames) : fieldNames[i][1] = fieldNames[i][2]
    /\ \A i \in 1..Len(fieldTypes) : IsExact(fieldTypes[i][2], fieldTypes[i][3])
    /\ SummariesAgree

\* C7: a run of Compare in which no section finds a discrepancy prints the
\* affirmative summary line exactly once, with and without verbose mode.
C7_SuccessLineOnce ==
    (pc = "done" /\ NoDiscrepancy) => TimesPrinted(SuccessLine) = 1

\* C8: the section of every discrepancy (entry count, field count, field
\* names, field types, distribution statistics) is printed by Compare,
\* whether or not verbose mode is set.
C8_DiscrepanciesAlwaysShown ==
    pc = "done" =>
        /\ entries[1] # entries[2] => Printed(Line("*** Entry Count ***"))
        /\ fields[1] # fields[2] => Printed(Line("*** Field Count ***"))
        /\ (\E i \in 1..Len(fieldNames) : fieldNames[i][1] # fieldNames[i][2])
              => Printed(Line("*** Field Names ***"))
        /\ (\E i \in 1..Len(fieldTypes) : ~IsExact(fieldTypes[i][2], fieldTypes[i][3]))
              => Printed(Line("*** Field Types ***"))
        /\ ~SummariesAgree => Printed(Line("All histogram statistics match: FALSE"))

\* the input of the section that was called holds a discrepancy
InputDiscrepancy ==
    \/ entries # None /\ entries[1] # entries[2]
    \/ fields # None /\ fields[1] # fields[2]
    \/ \E i \in 1..Len(fieldNames) : fieldNames[i][1] # fieldNames[i][2]
    \/ \E i \in 1..Len(fieldTypes) : ~IsExact(fieldTypes[i][2], fieldTypes[i][3])

\* C9: each of the four printing sections returns true if and only if
\* verbose mode is on or its input holds a discrepancy (for types: a pair
\* that is not Exact, an unresolved type included), and prints nothing when
\* it returns false.
C9_ReturnsTrueIffVerboseOrDiscrepancy ==
    pc = "returned" =>
        /\ output <=> (fVerbose \/ InputDiscrepancy)
        /\ ~output => out = <<>>

\* the sum of the per-row vector lengths of the branch / of the top-level
\* columnar field of that name
RowSideSum(name) ==
    LET j == CHOOSE k \in 1..Len(tree.branches) : tree.branches[k].name = name
    IN  SumSeq(tree.branches[j].data)
ColumnarSum(name) ==
    LET j == CHOOSE k \in 1..Len(TopLevel) : TopLevel[k].name = name
    IN  SumSeq(TopLevel[j].data)

\* C10: every entry of CompareSubFields reports as row-side total the sum of
\* the branch's per-row vector lengths and as columnar total the sum of the
\* same-named columnar field's per-row vector lengths, for every schema.
C10_TrueSubFieldTotals ==
    pc = "returned" =>
        \A i \in 1..Len(subFields) :
            /\ subFields[i].ttreeCount = RowSideSum(subFields[i].name)
            /\ subFields[i].rntupleCount = ColumnarSum(subFields[i].name)

\* the pre-scan loop and the printing loop of PrintFieldTypeComparison over a
\* list of triples
ScanOf(types) == TypeLoop(types, TRUE, 1, 0, FALSE, <<>>)
PrintOf(types) == TypeLoop(types, FALSE, 1, 0, ScanOf(types).missingType, <<>>)

\* the list with the two types of triple i exchanged
SwapRow(types, i) == [types EXCEPT ![i] = << @[1], @[3], @[2] >>]

\* the class a loop gives one pair of spellings
PairClass(inScan, a, b) ==
    LET res == TypeLoop(<< << N_value, a, b >> >>, inScan, 1, 0, FALSE, <<>>)
    IN  IF res.missingType THEN "Missing"
        ELSE CASE res.flags[1] = 0 -> "Exact"
               [] res.flags[1] = 1 -> "NearMatch"
               [] OTHER -> "Mismatch"

\* C11: the type classification is symmetric: PrintFieldTypeComparison gives
\* the pair (a, b) the class of the pair (b, a), in the pre-scan loop and in
\* the printing loop, so exchanging the two types of any triple of its input
\* changes neither a flag, nor the return value, nor a printed line.
C11_ClassificationSymmetric ==
    (pc = "returned" /\ fieldTypes # None) =>
        \A i \in 1..Len(fieldTypes) :
            /\ PairClass(TRUE, fieldTypes[i][2], fieldTypes[i][3])
                  = PairClass(TRUE, fieldTypes[i][3], fieldTypes[i][2])
            /\ PairClass(FALSE, fieldTypes[i][2], fieldTypes[i][3])
                  = PairClass(FALSE, fieldTypes[i][3], fieldTypes[i][2])
            /\ ScanOf(SwapRow(fieldTypes, i)) = ScanOf(fieldTypes)
            /\ PrintOf(SwapRow(fieldTypes, i)) = PrintOf(fieldTypes)
            /\ output = PrintFieldTypeComparison(SwapRow(fieldTypes, i), fVerbose).ret
            /\ out = PrintFieldTypeComparison(SwapRow(fieldTypes, i), fVerbose).lines

\* the type section has printed a list holding a near match with the double
\* on the row side
C11_Witness ==
    /\ pc = "returned" /\ fieldTypes # None /\ out # <<>>
    /\ \E i \in 1..Len(fieldTypes) :
          /\ TypeMapped(fieldTypes[i][2]) = T_double
          /\ TypeMapped(fieldTypes[i][3]) = T_float
          /\ PrintOf(fieldTypes).flags[i] = 1

\* a field matched by name has a type, on either side, that the type table
\* does not know
UnresolvedMatchedType ==
    \E i \in 1..Len(fieldTypes) :
        /\ fieldTypes[i][2] # NoMatch
        /\ fieldTypes[i][3] # NoMatch
        /\ TypeMapped(fieldTypes[i][2]) = Missing \/ TypeMapped(fieldTypes[i][3]) = Missing

\* C12: a matched field with a type outside the known-type table is shown as
\* Missing in the output of Compare, in both verbosity modes, and Compare
\* neither throws nor reports the pass over it.
C12_UnresolvedTypeSurfaced ==
    (AfterTypes /\ UnresolvedMatchedType) =>
        /\ Printed(Line("*** Field Types ***"))
        /\ Printed(Line("Field type comparison yields match failure due to unmatching fields."))
        /\ pc # "thrown"
        /\ ~Printed(SuccessLine)

\* the number of enumerated descriptors named "_0"
SubFieldSentinels == Cardinality({i \in 1..Len(ntuple.desc) : ntuple.desc[i].name = N_0})

\* C13: CountFields returns the number of branches and the number of
\* enumerated columnar fields less the last one and less every "_0"; for the
\* same user schema both counts are the number of declared fields, and they
\* differ when the columnar side lacks one field.
C13_CountFields ==
    AfterFields =>
        /\ fields[1] = Len(tree.branches)
        /\ fields[2] = Len(ntuple.desc) - 1 - SubFieldSentinels
        /\ fields[2] = Len(TopLevel)
        /\ SameSchema => (fields[1] = fields[2] /\ fields[1] = Len(tree.branches))
        /\ Len(TopLevel) = Len(tree.branches) - 1 => fields[1] # fields[2]

\* the fields were counted for an RNTuple with a vector field that lacks one
\* of the branches
C13_Witness ==
    /\ AfterFields
    /\ SubFieldSentinels > 0
    /\ Len(TopLevel) = Len(tree.branches) - 1
    /\ fields[1] # fields[2]

\* some field a scalar reader of the RNTuple selects has no view of the
\* reader's type, whatever the reader coerces
UnreadableField ==
    \E i \in 0..(GetNFields(ntuple) - 2) :
        LET fd == GetFieldDescriptor(ntuple, i)
        IN  \/ Contains(fd.type, T_int) /\ ~ScalarViewReadable(ntuple, fd.name, T_std_int32_t, TRUE)
            \/ fd.type = T_float /\ ~ScalarViewReadable(ntuple, fd.name, T_float, FALSE)
            \/ fd.type = T_double /\ ~ScalarViewReadable(ntuple, fd.name, T_double, FALSE)
            \/ fd.type = T_bool /\ ~ScalarViewReadable(ntuple, fd.name, T_bool, FALSE)

RowFileUnopenable == config.fTTreeFile # DiskTTreeFile
TTreeNotFound == config.fTTreeName # DiskTTreeName
ColumnarFileUnopenable == config.fRNTupleFile # DiskRNTupleFile
RNTupleNotFound == config.fRNTupleName # DiskRNTupleName
SourceUnavailable ==
    RowFileUnopenable \/ TTreeNotFound \/ ColumnarFileUnopenable \/ RNTupleNotFound

\* C15: when a file cannot be opened or the named TTree or RNTuple is not in
\* it, the constructor of Checker throws a std::runtime_error that names the
\* path or the dataset, and Compare runs no comparison section and prints no
\* verdict.
C15_SourceUnavailableThrows ==
    (SourceUnavailable /\ pc # "Checker") =>
        /\ pc = "unavailable"
        /\ error # None
        /\ \/ RowFileUnopenable /\ error.names = << config.fTTreeFile >>
           \/ TTreeNotFound /\ error.names = << config.fTTreeName, config.fTTreeFile >>
           \/ ColumnarFileUnopenable /\ error.names = << config.fRNTupleFile >>
           \/ RNTupleNotFound /\ error.names = << config.fRNTupleName, config.fRNTupleFile >>
        /\ out = <<>>
        /\ entries = None /\ fields = None /\ fieldNames = None /\ fieldTypes = None
        /\ histT = None /\ histR = None

\* the constructor has thrown over an RNTuple that is not in its file, the
\* TTree being there
C15_Witness ==
    /\ pc = "unavailable"
    /\ ~RowFileUnopenable /\ ~TTreeNotFound /\ ~ColumnarFileUnopenable /\ RNTupleNotFound
    /\ error = RuntimeError("Cannot find RNTuple: ", << NoSuchName, DiskRNTupleFile >>)

\* the words of the command line
Words == {argv[i] : i \in 1..Len(argv)}

\* a required option is not on the command line; an option main does not
\* know is on it
RequiredFlagMissing == \E flag \in {"-t", "-r", "-tn", "-rn"} : flag \notin Words
UnknownFlag == "-x" \in Words

\* C16: main exits with a non-zero status and the usage message whenever one
\* of -t, -r, -tn, -rn is missing from the command line, and exits with a
\* non-zero status for an unknown option, without starting a comparison.
C16_MainRejectsBadCommandLine ==
    pc # "main" =>
        /\ RequiredFlagMissing =>
              /\ pc = "exited" /\ exitStatus \in {"1", "abort"}
              /\ Printed(UsageLine)
              /\ error = None /\ entries = None
        /\ UnknownFlag =>
              /\ pc = "exited" /\ exitStatus \in {"1", "abort"}
              /\ error = None /\ entries = None

\* the data of the fields of q (branches or top-level fields) whose type is
\* typeName, field after field in declaration order
RECURSIVE FieldsData(_, _)
FieldsData(q, typeName) ==
    IF q = <<>> THEN <<>>
    ELSE FieldsData(SubSeq(q, 1, Len(q) - 1), typeName)
         \o (IF q[Len(q)].type = typeName THEN q[Len(q)].data ELSE <<>>)

\* the scalar types in the order of the buffers
BufferKinds == << "int", "float", "double", "bool" >>

\* both files declare the same scalar fields of the four types, at most one
\* per type
OneFieldPerScalarType ==
    /\ SameSchema
    /\ \A j \in 1..Len(tree.branches) :
          /\ tree.branches[j].type \in {T_Int_t, T_Float_t, T_Double_t, T_Bool_t}
          /\ \A k \in 1..Len(tree.branches) :
                tree.branches[k].type = tree.branches[j].type => k = j

\* C17: for each scalar type the TTree reader and the RNTuple reader return
\* the values of the fields of that type, field after field in declaration
\* order and row after row; for identical datasets with one field per type
\* both return the same n values, the i-th being the value of row i.
C17_ReadersReturnFieldValues ==
    Finished =>
        /\ pc = "done"
        /\ \A k \in 1..4 :
              /\ bufT[k] = FieldsData(tree.branches, TreeTypeName(BufferKinds[k]))
              /\ bufR[k] = FieldsData(TopLevel, NTupleTypeName(BufferKinds[k]))
        /\ (OneFieldPerScalarType /\ SameData) =>
              \A k \in 1..4 :
                  /\ bufT[k] = bufR[k]
                  /\ bufT[k] # <<>> => Len(bufT[k]) = tree.rows

\* the class of a pair of spellings by the rule: Missing when a spelling is
\* not recognised, Exact when the normalised types are equal, NearMatch for
\* float against double and vector<float> against vector<double>, Mismatch
\* for the rest
RuleClass(a, b) ==
    CASE TypeMapped(a) = Missing \/ TypeMapped(b) = Missing -> "Missing"
      [] OTHER ->
         IF TypeMapped(a) = TypeMapped(b) THEN "Exact"
         ELSE IF {TypeMapped(a), TypeMapped(b)} \in
                    {{T_float, T_double}, {T_vector_float, T_vector_double}}
         THEN "NearMatch"
         ELSE "Mismatch"

\* the line of triple i when it is printed with the flag of that class
RowLine(class, i) ==
    CASE class = "NearMatch" -> LineNum("field type row   no exact match   ", i)
      [] class = "Mismatch" -> LineNum("field type row   type mismatch   ", i)
      [] OTHER -> LineNum("field type row", i)

\* C18: PrintFieldTypeComparison classifies every pair of its input by the
\* rule (Missing, else Exact, else NearMatch, else Mismatch): each pair taken
\* alone gets that class in both loops, and the row printed for each triple
\* of a list carries the flag of its class.
C18_ClassificationRule ==
    (pc = "returned" /\ fieldTypes # None) =>
        \A i \in 1..Len(fieldTypes) :
            /\ PairClass(TRUE, fieldTypes[i][2], fieldTypes[i][3])
                  = RuleClass(fieldTypes[i][2], fieldTypes[i][3])
            /\ PairClass(FALSE, fieldTypes[i][2], fieldTypes[i][3])
                  = RuleClass(fieldTypes[i][2], fieldTypes[i][3])
            /\ out # <<>> => out[1 + i] = RowLine(RuleClass(fieldTypes[i][2], fieldTypes[i][3]), i)

\* ---------------------------------------------------------------- C19
\* opening minus closing angle brackets among the characters lo .. hi of s
Balance(s, lo, hi) ==
    Cardinality({k \in lo..hi : s[k] = "<"}) - Cardinality({k \in lo..hi : s[k] = ">"})

\* 1-based positions of the first '<' of s and of the '>' that closes it
\* (0 when there is none)
FirstOpen(s) ==
    LET opens == {k \in 1..Len(s) : s[k] = "<"}
    IN  IF opens = {} THEN 0 ELSE CHOOSE k \in opens : \A j \in opens : k <= j

MatchingClose(s) ==
    LET closes == {k \in (FirstOpen(s) + 1)..Len(s) : Balance(s, FirstOpen(s), k) = 0}
    IN  IF FirstOpen(s) = 0 \/ closes = {} THEN 0
        ELSE CHOOSE k \in closes : \A j \in closes : k <= j

\* the content of the outermost angle-bracket pair of s
OutermostContent(s) == SubSeq(s, FirstOpen(s) + 1, MatchingClose(s) - 1)

\* s has no '<' followed by a '>'
NoOrderedPair(s) ==
    \/ FirstOpen(s) = 0
    \/ \A k \in (FirstOpen(s) + 1)..Len(s) : s[k] # ">"

\* C19: ExtractSubFieldType returns the content of the outermost pair of
\* angle brackets of the type spelling (the text between the first '<' and
\* the '>' that closes it, so "vector<int>" for "vector<vector<int>>"),
\* and the empty string when the spelling has no '<' followed by a '>'.
C19_OutermostPair ==
    pc = "returned" /\ subFieldType # None =>
        /\ NoOrderedPair(vectorType) => subFieldType = Empty
        /\ MatchingClose(vectorType) # 0 => subFieldType = OutermostContent(vectorType)

\* ---------------------------------------------------------------- C20
\* the type string of the top-level columnar field of that name
ColumnarType(name) ==
    LET j == CHOOSE k \in 1..Len(TopLevel) : TopLevel[k].name = name
    IN  TopLevel[j].type

\* the columnar field of entry e is a vector of the element type extracted
\* from the row side
SameElementType(e) ==
    RegexMatchAround(ColumnarType(e.name), S_std_vector_lt, e.ttreeSub, <<">">>)

RowType(name) ==
    LET j == CHOOSE k \in 1..Len(tree.branches) : tree.branches[k].name = name
    IN  tree.branches[j].type

SupportedRowVectors == {T_vector_int, T_vector_float, T_vector_double, T_vector_bool}
SupportedColumnarVectors ==
    {T_std_vector_int32_t, T_std_vector_float, T_std_vector_double, T_std_vector_bool}

\* a vector branch whose same-named columnar field is a vector of an
\* unsupported element type
UnsupportedColumnarVector ==
    \E j \in 1..Len(tree.branches) : \E k \in 1..Len(TopLevel) :
        /\ Contains(tree.branches[j].type, S_vector)
        /\ TopLevel[k].name = tree.branches[j].name
        /\ Contains(TopLevel[k].type, S_vector)
        /\ TopLevel[k].type \notin SupportedColumnarVectors

\* C21: a vector field whose element type is not int, float, double or
\* bool gets a total of zero on the row side and on the columnar side,
\* and CompareSubFields does not throw on it.
C21_UnsupportedElementTypeCountsZero ==
    /\ pc = "returned" =>
           \A i \in 1..Len(subFields) :
               /\ RowType(subFields[i].name) \notin SupportedRowVectors
                      => subFields[i].ttreeCount = 0
               /\ ColumnarType(subFields[i].name) \notin SupportedColumnarVectors
                      => subFields[i].rntupleCount = 0
    /\ UnsupportedColumnarVector => pc # "thrown"

\* ---------------------------------------------------------------- C22
\* C22: a vector field named "_0" on both sides is left out of subfield
\* counting: whatever CompareSubFields reports for it, its elements are
\* counted on neither side and the two totals do not differ.
C22_SentinelSkippedOnBothSides ==
    pc = "returned" =>
        \A i \in 1..Len(subFields) :
            subFields[i].name = N_0 =>
                /\ subFields[i].ttreeCount = 0
                /\ subFields[i].rntupleCount = 0

\* ---------------------------------------------------------------- C23
\* the names of the fields of q
NamesOf(q) == {q[i].name : i \in 1..Len(q)}

\* the data of the fields of q whose type is typeName and whose name is in
\* names, field after field
RECURSIVE MatchedFieldsData(_, _, _)
MatchedFieldsData(q, typeName, names) ==
    IF q = <<>> THEN <<>>
    ELSE MatchedFieldsData(SubSeq(q, 1, Len(q) - 1), typeName, names)
         \o (IF q[Len(q)].type = typeName /\ q[Len(q)].name \in names
             THEN q[Len(q)].data ELSE <<>>)

\* the data of the fields of q whose type spelling holds the pattern
RECURSIVE FieldsDataHolding(_, _)
FieldsDataHolding(q, pattern) ==
    IF q = <<>> THEN <<>>
    ELSE FieldsDataHolding(SubSeq(q, 1, Len(q) - 1), pattern)
         \o (IF Contains(q[Len(q)].type, pattern) THEN q[Len(q)].data ELSE <<>>)

\* C23 as stated: the buffers handed to the distribution summaries hold
\* the values of the scalar fields matched by name across the two files
\* and nothing of a field present on one side only.
C23_BuffersHoldMatchedFieldsOnly ==
    pc = "done" =>
        \A k \in 1..4 :
            /\ bufT[k] = MatchedFieldsData(tree.branches, TreeTypeName(BufferKinds[k]),
                                           NamesOf(TopLevel))
            /\ bufR[k] = MatchedFieldsData(TopLevel, NTupleTypeName(BufferKinds[k]),
                                           NamesOf(tree.branches))

\* C23 amended: each buffer holds the values of every field of its own
\* file that its reader selects by type, matched by name or not: on the
\* row side the branches of exactly that leaf type, on the columnar side
\* the fields of exactly float, double, bool, and for Int the fields
\* whose type spelling holds "int". A field present on one side only
\* contributes its values to that side's buffer.
C23_BuffersHoldEveryFieldOfType ==
    pc = "done" =>
        /\ \A k \in 1..4 :
               bufT[k] = FieldsData(tree.branches, TreeTypeName(BufferKinds[k]))
        /\ bufR[1] = FieldsDataHolding(TopLevel, T_int)
        /\ \A k \in 2..4 :
               bufR[k] = FieldsData(TopLevel, NTupleTypeName(BufferKinds[k]))

\* Compare has completed on a TTree holding an Int_t branch that has no
\* field of its name in the RNTuple, and the branch's values are in the
\* Int buffer of the row side
C23_Witness ==
    /\ pc = "done"
    /\ \E j \in 1..Len(tree.branches) :
           /\ tree.branches[j].type = T_Int_t
           /\ tree.branches[j].name \notin NamesOf(TopLevel)
           /\ tree.branches[j].data # <<>>
           /\ Len(bufT[1]) >= Len(tree.branches[j].data)

\* ---------------------------------------------------------------- C24
\* C24: a run of Compare goes through the stages in the order catalog
\* (counts), matching (names and types), subfield reconciliation,
\* distribution comparison, done: the result of a stage is there only when
\* the results of the stages before it are, and a completed run has the
\* results of all of them, those of CompareSubFields included.
C24_StagesInOrder ==
    /\ fields # None => entries # None
    /\ fieldNames # None => fields # None
    /\ fieldTypes # None => fieldNames # None
    /\ subFields # None => fieldTypes # None
    /\ histT # None => subFields # None
    /\ pc = "done" => /\ entries # None /\ fields # None
                      /\ fieldNames # None /\ fieldTypes # None
                      /\ subFields # None
                      /\ histT # None /\ histR # None

\* ---------------------------------------------------------------- C25
\* C25: when both files hold values of one numeric type, the two
\* histograms of that type have the same axis: the same number of bins on
\* the range from the smallest to the largest value of both files' values
\* taken together.
C25_JointBinning ==
    pc = "done" =>
        \A k \in 1..3 :
            (bufT[k] # <<>> /\ bufR[k] # <<>>) =>
                /\ NumericAxis(bufT[k]) = NumericAxis(bufT[k] \o bufR[k])
                /\ NumericAxis(bufR[k]) = NumericAxis(bufT[k] \o bufR[k])

\* ---------------------------------------------------------------- C26
\* the classes of the triples of the list handed to PrintFieldTypeComparison
ClassesOf(types) == {RuleClass(types[i][2], types[i][3]) : i \in 1..Len(types)}

\* the verdict line for the worst class of a list without unresolved types
WorstVerdict(types) ==
    IF "Mismatch" \in ClassesOf(types) THEN Line("The fields have the same types: FALSE")
    ELSE IF "NearMatch" \in ClassesOf(types)
         THEN Line("The fields have the same types: NOT EXACTLY")
         ELSE Line("The fields have the same types: TRUE")

\* C26: when PrintFieldTypeComparison prints its section for a list whose
\* types are all resolved, the closing verdict is that of the worst class in
\* the list, wherever in the list that class occurs: FALSE with a Mismatch,
\* else NOT EXACTLY with a NearMatch, else TRUE.
C26_VerdictIsWorstClass ==
    (pc = "returned" /\ fieldTypes # None /\ out # <<>>
        /\ "Missing" \notin ClassesOf(fieldTypes)) =>
            out[Len(out)] = WorstVerdict(fieldTypes)

\* ---------------------------------------------------------------- C27
\* the level at which triple i is flagged when the list holds it alone
AloneFlag(types, i) == PrintOf(<< types[i] >>).flags[1]

\* the line of triple i printed with the flag of a level
FlaggedRow(level, i) ==
    CASE level = 1 -> LineNum("field type row   no exact match   ", i)
      [] level = 2 -> LineNum("field type row   type mismatch   ", i)
      [] OTHER -> LineNum("field type row", i)

\* C27: what PrintFieldTypeComparison does with one triple does not depend
\* on the other triples of the list: a NearMatch or Mismatch triple makes
\* the function return true also in non-verbose mode, and the row printed
\* for a triple carries the flag the triple gets when it is alone in the
\* list, whether or not another triple has an unresolved type.
C27_TriplesIndependent ==
    (pc = "returned" /\ fieldTypes # None) =>
        /\ ({"NearMatch", "Mismatch"} \cap ClassesOf(fieldTypes) # {}) => output
        /\ out # <<>> =>
               \A i \in 1..Len(fieldTypes) :
                   out[1 + i] = FlaggedRow(AloneFlag(fieldTypes, i), i)

\* ---------------------------------------------------------------- C28
\* C28: the two counts CountEntries returns are equal exactly when the two
\* files' 64-bit entry counts are, and each returned count is the file's
\* entry count itself: not negative and not wrapped.
C28_NarrowingKeepsCounts ==
    (pc = "returned" /\ entries # None) =>
        /\ (entries[1] = entries[2]) <=> (GetEntries(tree) = GetNEntries(ntuple))
        /\ entries[1] >= 0 /\ Count64(entries[1]) = GetEntries(tree)
        /\ entries[2] >= 0 /\ Count64(entries[2]) = GetNEntries(ntuple)

\* ---------------------------------------------------------------- C29
\* C29: an entry of CompareSubFields whose name holds "_0" without being
\* "_0" reports as columnar total the sum of the per-row vector lengths of
\* the columnar field of that name.
C29_OnlyExactSentinelExcluded ==
    pc = "returned" =>
        \A i \in 1..Len(subFields) :
            (Contains(subFields[i].name, N_0) /\ subFields[i].name # N_0) =>
                subFields[i].rntupleCount = ColumnarSum(subFields[i].name)

\* ---------------------------------------------------------------- C30
\* C30: ReadIntFromRNTuple reads the columnar fields of type std::int32_t
\* and no other: a field whose type spelling merely holds "int" makes the
\* reader neither fail nor take its values, so that Compare gets past the
\* readers and the Int buffer of the columnar side holds the rows of the
\* std::int32_t fields only, the same fields as on the row side when the
\* schema is the same.
C30_IntReaderExactType ==
    Finished =>
        /\ pc = "done"
        /\ bufR[1] = FieldsData(TopLevel, T_std_int32_t)
        /\ SameSchema =>
               {TopLevel[j].name : j \in {k \in 1..Len(TopLevel) :
                                             Contains(TopLevel[k].type, T_int)}}
               = {tree.branches[j].name : j \in {k \in 1..Len(tree.branches) :
                                             tree.branches[k].type = T_Int_t}}

====
